---- MODULE Spec2Model ----
(***************************************************************************)
(* Sacred Poker: the tournament engine of the React component             *)
(* SustainableIQPoker (src/unnamed/part_000).  The React state `game` is   *)
(* the record variable game; the handlers handlePlayerAction,              *)
(* executeAIAction (run by the AI pacing timer), advancePhase, nextHand    *)
(* and startNewGame are the actions.                                       *)
(*                                                                         *)
(* Cards are not tracked individually: the shuffled deck is a random       *)
(* input whose only effects on the table are (a) the strength tier that    *)
(* makeAIDecision derives from a seat's cards and (b) the evaluator        *)
(* output of each contender at the river.  Both are drawn from bounded     *)
(* sets at the step that uses them.                                        *)
(*                                                                         *)
(* SpecLate starts the same engine at the showdown of a second hand, and   *)
(* SpecPage is the earlier single-hand component (src/app/page.tsx) with   *)
(* its phase-advance callbacks.                                            *)
(***************************************************************************)
EXTENDS Integers, Sequences, FiniteSets, TLC

\* ---------------------------------------------------------------- bounds
\* seats at the table, hands dealt per tournament, and accepted raises
\* explored per tournament
NumSeats == 3
MaxHands == 1
MaxRaises == 1
MaxLateHands == 3

\* ------------------------------------------------------ program constants
InitialChips == 1000
SmallBlind == 10
BigBlind == 20

Seats == 0 .. (NumSeats - 1)
NoSeat == 0 - 1

VARIABLES game, userPosition, aiTimer, lastLog, raises, hung,
          timerStale, advTimers

vars == <<game, userPosition, aiTimer, lastLog, raises, hung,
          timerStale, advTimers>>

BettingPhases == {"preflop", "flop", "turn", "river"}

Min(a, b) == IF a < b THEN a ELSE b
Max(a, b) == IF a > b THEN a ELSE b

RECURSIVE SumOver(_, _)
SumOver(f, S) ==
  IF S = {} THEN 0
  ELSE LET x == CHOOSE y \in S : TRUE IN f[x] + SumOver(f, S \ {x})

TotalBets(ps) == SumOver([i \in Seats |-> ps[i].bet], Seats)
TotalChips(ps) == SumOver([i \in Seats |-> ps[i].chips], Seats)

\* ------------------------------------------------------------ construction
NewPlayer ==
  [chips |-> InitialChips, bet |-> 0, folded |-> FALSE, allIn |-> FALSE,
   hasActed |-> FALSE, eliminated |-> FALSE]

\* the React state before the first tournament: game === null
NullGame ==
  [players |-> [i \in Seats |-> NewPlayer], communityCards |-> 0, pot |-> 0,
   currentBet |-> 0, phase |-> "null", activePlayerIndex |-> 0,
   dealerIndex |-> 0, bettingComplete |-> FALSE, handNumber |-> 0,
   winner |-> NoSeat, tournamentWinner |-> NoSeat, deckIndex |-> 0]

initializeGame ==
  [players |-> [i \in Seats |-> NewPlayer], communityCards |-> 0, pot |-> 0,
   currentBet |-> 0, phase |-> "waiting", activePlayerIndex |-> 0,
   dealerIndex |-> 0, bettingComplete |-> FALSE, handNumber |-> 1,
   winner |-> NoSeat, tournamentWinner |-> NoSeat, deckIndex |-> 0]

\* ---------------------------------------------------------- seat ordering
\* players.map((p, i) => ...).filter(!eliminated): the non-eliminated seat
\* indices in increasing order
RECURSIVE ActiveFrom(_, _)
ActiveFrom(ps, i) ==
  IF i >= NumSeats THEN <<>>
  ELSE IF ps[i].eliminated THEN ActiveFrom(ps, i + 1)
       ELSE <<i>> \o ActiveFrom(ps, i + 1)

ActiveSeq(ps) == ActiveFrom(ps, 0)

\* findIndex over the filtered list, 0-based, -1 when absent
RECURSIVE FindFrom(_, _, _)
FindFrom(seq, x, k) ==
  IF k > Len(seq) THEN 0 - 1
  ELSE IF seq[k] = x THEN k - 1
       ELSE FindFrom(seq, x, k + 1)

RingAt_AllSeats(ps, dealer, k) == (dealer + k) % NumSeats

\* activePlayers[(dealerPosition + k) % activePlayers.length].index
RingAt(ps, dealer, k) ==
  LET act == ActiveSeq(ps)
      pos == FindFrom(act, dealer, 1)
  IN act[((pos + k) % Len(act)) + 1]

\* `x?.index || activePlayers[0].index` : index 0 is falsy
OrFirst(ps, idx) == IF idx = 0 THEN ActiveSeq(ps)[1] ELSE idx

\* ---------------------------------------------------------------- dealing
dealCards(g) ==
  LET reset == [i \in Seats |->
                  [g.players[i] EXCEPT !.folded = g.players[i].eliminated,
                                       !.bet = 0, !.hasActed = FALSE,
                                       !.allIn = FALSE]]
      act == ActiveSeq(reset)
      dealt == g.deckIndex + 2 * Len(act)
  IN IF Len(act) < 2
     THEN [g EXCEPT !.players = reset, !.deckIndex = dealt]
     ELSE
       LET sb == RingAt(reset, g.dealerIndex, 1)
           bb == RingAt(reset, g.dealerIndex, 2)
           sbAmount == Min(SmallBlind, reset[sb].chips)
           bbAmount == Min(BigBlind, reset[bb].chips)
           \* the four assignments of lines 332-335, in order (sb may be bb
           \* only when fewer than two seats remain, excluded above)
           p1 == [reset EXCEPT ![sb].chips = @ - sbAmount, ![sb].bet = sbAmount]
           p2 == [p1 EXCEPT ![bb].chips = @ - bbAmount, ![bb].bet = bbAmount]
           p3 == [p2 EXCEPT ![sb].allIn = IF p2[sb].chips = 0 THEN TRUE ELSE @]
           p4 == [p3 EXCEPT ![bb].allIn = IF p3[bb].chips = 0 THEN TRUE ELSE @]
           p5 == [p4 EXCEPT ![sb].hasActed = FALSE]
           p6 == [p5 EXCEPT ![bb].hasActed = TRUE]
       IN [g EXCEPT !.players = p6, !.deckIndex = dealt, !.pot = 0,
                    !.phase = "preflop",
                    !.activePlayerIndex =
                       OrFirst(p6, RingAt(p6, g.dealerIndex, 3)),
                    !.currentBet = bbAmount,
                    !.bettingComplete = FALSE]

\* ------------------------------------------------------- betting machine
Contender(p) == ~p.folded /\ ~p.allIn /\ ~p.eliminated

\* the closure test without the hasActed condition
isBettingComplete_MatchOnly(g) ==
  LET activePlayers == {i \in Seats : Contender(g.players[i])}
  IN IF Cardinality(activePlayers) <= 1 THEN TRUE
     ELSE \A i \in activePlayers : g.players[i].bet = g.currentBet

isBettingComplete(g) ==
  LET activePlayers == {i \in Seats : Contender(g.players[i])}
      allActed == \A i \in activePlayers : g.players[i].hasActed
      allMatchCurrentBet ==
        \A i \in activePlayers :
          g.players[i].bet = g.currentBet \/ g.players[i].allIn
  IN IF Cardinality(activePlayers) <= 1 THEN TRUE
     ELSE allActed /\ allMatchCurrentBet

\* the scan of getNextActivePlayer: at most players.length probes
RECURSIVE ScanActive(_, _, _)
ScanActive(g, nextIndex, attempts) ==
  IF attempts >= NumSeats THEN g.activePlayerIndex
  ELSE IF Contender(g.players[nextIndex]) THEN nextIndex
       ELSE ScanActive(g, (nextIndex + 1) % NumSeats, attempts + 1)

getNextActivePlayer(g) ==
  ScanActive(g, (g.activePlayerIndex + 1) % NumSeats, 0)

Reopen_Nobody(ps, playerIndex) == ps

\* hasActed = false for every other seat that can still act
Reopen(ps, playerIndex) ==
  [i \in Seats |->
     IF i # playerIndex /\ Contender(ps[i])
     THEN [ps[i] EXCEPT !.hasActed = FALSE]
     ELSE ps[i]]

\* case 'fold'
ApplyFold(g, playerIndex) ==
  [g EXCEPT !.players[playerIndex].folded = TRUE,
            !.players[playerIndex].hasActed = TRUE]

CallAmount_NotCapped(g, playerIndex) ==
  g.currentBet - g.players[playerIndex].bet

\* case 'call'.  `player` aliases newGame.players[playerIndex] (newGame is a
\* shallow copy), so the test `callAmount === player.chips` reads the stack
\* AFTER the debit.
CallAmount(g, playerIndex) ==
  Min(g.currentBet - g.players[playerIndex].bet, g.players[playerIndex].chips)

ApplyCall(g, playerIndex) ==
  LET player == g.players[playerIndex]
      callAmount == CallAmount(g, playerIndex)
      chipsAfter == player.chips - callAmount
  IN [g EXCEPT !.players[playerIndex] =
        [player EXCEPT !.chips = chipsAfter,
                       !.bet = player.bet + callAmount,
                       !.hasActed = TRUE,
                       !.allIn = IF callAmount = chipsAfter THEN TRUE ELSE @]]

\* case 'raise' with its guard `amount && amount > currentBet`; a raise that
\* fails the guard changes nothing in the switch.  The all-in test
\* `additionalBet === player.chips` again reads the stack after the debit.
RaiseAccepted(g, amount) == amount # 0 /\ amount > g.currentBet

ApplyRaise(g, playerIndex, amount) ==
  IF ~RaiseAccepted(g, amount) THEN g
  ELSE
    LET player == g.players[playerIndex]
        totalBet == Min(amount, player.chips + player.bet)
        additionalBet == totalBet - player.bet
        chipsAfter == player.chips - additionalBet
        raised == [g.players EXCEPT ![playerIndex] =
                     [player EXCEPT !.chips = chipsAfter, !.bet = totalBet,
                                    !.hasActed = TRUE]]
        reopened == Reopen(raised, playerIndex)
    IN [g EXCEPT !.currentBet = totalBet,
                 !.players =
                    [reopened EXCEPT ![playerIndex].allIn =
                        IF additionalBet = chipsAfter THEN TRUE ELSE @]]

ApplyAllIn_MarksBusted(g, playerIndex) ==
  LET player == g.players[playerIndex]
      allInAmount == player.chips + player.bet
      shoved == [g.players EXCEPT ![playerIndex] =
                   [player EXCEPT !.chips = 0, !.bet = allInAmount,
                                  !.allIn = TRUE, !.hasActed = TRUE,
                                  !.eliminated = TRUE]]
  IN IF allInAmount > g.currentBet
     THEN [g EXCEPT !.currentBet = allInAmount,
                    !.players = Reopen(shoved, playerIndex)]
     ELSE [g EXCEPT !.players = shoved]

\* case 'allin'
ApplyAllIn(g, playerIndex) ==
  LET player == g.players[playerIndex]
      allInAmount == player.chips + player.bet
      shoved == [g.players EXCEPT ![playerIndex] =
                   [player EXCEPT !.chips = 0, !.bet = allInAmount,
                                  !.allIn = TRUE, !.hasActed = TRUE]]
  IN IF allInAmount > g.currentBet
     THEN [g EXCEPT !.currentBet = allInAmount,
                    !.players = Reopen(shoved, playerIndex)]
     ELSE [g EXCEPT !.players = shoved]

ApplySwitch(g, playerIndex, action, amount) ==
  CASE action = "fold" -> ApplyFold(g, playerIndex)
    [] action = "call" -> ApplyCall(g, playerIndex)
    [] action = "raise" -> ApplyRaise(g, playerIndex, amount)
    [] action = "allin" -> ApplyAllIn(g, playerIndex)

\* lines 507-511 / 765-767: recompute the flag, move the turn if still open
CloseOrPass(g) ==
  LET flagged == [g EXCEPT !.bettingComplete = isBettingComplete(g)]
  IN IF ~flagged.bettingComplete
     THEN [flagged EXCEPT !.activePlayerIndex = getNextActivePlayer(flagged)]
     ELSE flagged

\* the turn guard left out
NotPlayersTurn_Unchecked(g, playerIndex) == FALSE

\* the turn guard of handlePlayerAction
NotPlayersTurn(g, playerIndex) == playerIndex # g.activePlayerIndex

handlePlayerAction(g, playerIndex, action, amount) ==
  IF NotPlayersTurn(g, playerIndex) THEN g
  ELSE CloseOrPass(ApplySwitch(g, playerIndex, action, amount))

\* -------------------------------------------------------- decision policy
\* adjustedHandStrength is a function of the seat's cards (random input) and
\* the per-seat micro variance; the values below are one representative of
\* each band the policy distinguishes (>=85, 80..85, 70..80, 50..70, 30..50,
\* 25..30, <25).  Once community cards are out the score is
\* rank*15 + highCard/14*10 + 50, which never falls below the 50 band.
Strengths(g) ==
  IF g.communityCards > 0 THEN {90, 82, 72, 55}
  ELSE {90, 82, 72, 55, 35, 27, 10}

\* player.id = `player_${index}`: char code of the last character
playerSeed(g, i) == ((48 + i) + g.handNumber) % 1000

\* quirkChance = (playerSeed % 127) / 127, compared through 1000 * 127
quirkNumer(g, i) == 1000 * (playerSeed(g, i) % 127)

currentPot(g) == g.pot + TotalBets(g.players)

\* the policy: s is the adjusted strength, r1 and r2 the outcomes of the
\* Math.random() comparisons (every threshold lies strictly inside (0,1)).
\* Math.floor(currentPot * 0.3) and Math.floor(currentPot * 0.6) equal the
\* integer quotients below for every pot up to 20000; the double product
\* currentPot * 1.4 falls one short of (14 * pot) \div 10 for some pots
\* that are multiples of 5 (45, 85, 90, ...), which only the overbet quirk
\* reads, and no seat has a quirk seed before hand 73.
makeAIDecision(g, i, s, r1, r2) ==
  LET player == g.players[i]
      callAmount == g.currentBet - player.bet
      pot == currentPot(g)
      stack == Max(1, player.chips)
      \* potOdds < n/100 and betSize < n/100 in integer form
      potOddsBelow(n) ==
        IF callAmount > 0 THEN 100 * callAmount < n * (pot + callAmount)
        ELSE TRUE
      betSizeBelow(n) == 100 * callAmount < n * stack
      overbet == (14 * pot) \div 10
      bluffSize == (6 * pot) \div 10
      premiumRaise ==
        Min(g.currentBet + Max(BigBlind * 2, (3 * pot) \div 10),
            player.chips + player.bet)
      strongRaise ==
        Min(g.currentBet + BigBlind * 2, player.chips + player.bet)
      act == ActiveSeq(g.players)
      latePosition == FindFrom(act, i, 1) >= Len(act) - 2
      fold == [action |-> "fold", amount |-> 0]
      call == [action |-> "call", amount |-> 0]
      raise(a) == [action |-> "raise", amount |-> a]
      standard ==
        IF s >= 85 THEN (IF r1 THEN raise(premiumRaise) ELSE call)
        ELSE IF s >= 70 /\ (betSizeBelow(10) \/ r1)
          THEN (IF r2 THEN raise(strongRaise) ELSE call)
        ELSE IF s >= 50 /\ (potOddsBelow(30) \/ betSizeBelow(5)) THEN call
        ELSE IF s >= 30 /\ (potOddsBelow(15) \/ betSizeBelow(2)) THEN call
        ELSE IF callAmount = 0 THEN call
        ELSE fold
  IN IF s >= 85 /\ quirkNumer(g, i) < 7 * 127 /\ callAmount > 0 THEN fold
     ELSE IF s >= 80 /\ quirkNumer(g, i) > 988 * 127 /\ callAmount = 0
             /\ overbet <= player.chips + player.bet
       THEN raise(g.currentBet + overbet)
     ELSE IF latePosition /\ s < 25 /\ quirkNumer(g, i) < 8 * 127
             /\ callAmount = 0 /\ bluffSize <= player.chips + player.bet
       THEN raise(g.currentBet + bluffSize)
     ELSE IF g.phase = "preflop" /\ s >= 85 /\ quirkNumer(g, i) > 985 * 127
             /\ callAmount = BigBlind - player.bet
       THEN call
     ELSE standard

AIDecisions(g, i) ==
  {makeAIDecision(g, i, s, r1, r2) :
     s \in Strengths(g), r1 \in BOOLEAN, r2 \in BOOLEAN}

\* lines 744-763: everyone else folded, pay the last seat standing
EarlyWin(g) ==
  LET activePlayers ==
        {i \in Seats : ~g.players[i].folded /\ ~g.players[i].eliminated}
  IN IF g.bettingComplete /\ Cardinality(activePlayers) = 1
     THEN LET w == CHOOSE i \in activePlayers : TRUE
              winAmount == g.pot + TotalBets(g.players)
          IN [g EXCEPT !.winner = w, !.pot = winAmount,
                       !.phase = "showdown", !.bettingComplete = TRUE,
                       !.currentBet = 0,
                       !.players =
                         [i \in Seats |->
                            [g.players[i] EXCEPT
                               !.chips = IF i = w THEN @ + winAmount ELSE @,
                               !.bet = 0]]]
     ELSE IF ~g.bettingComplete
       THEN [g EXCEPT !.activePlayerIndex = getNextActivePlayer(g)]
       ELSE g

executeAIAction(g, decision) ==
  LET playerIndex == g.activePlayerIndex
      switched == CASE decision.action = "fold" -> ApplyFold(g, playerIndex)
                    [] decision.action = "call" -> ApplyCall(g, playerIndex)
                    [] decision.action = "raise" ->
                         ApplyRaise(g, playerIndex, decision.amount)
  IN EarlyWin([switched EXCEPT
                 !.bettingComplete = isBettingComplete(switched)])

\* ----------------------------------------------------------- hand ranking
\* evaluator outputs a contender can hold at the river (rank, kickers)
HandEvals ==
  {[rank |-> 1, kickers |-> <<9>>],
   [rank |-> 1, kickers |-> <<12>>],
   [rank |-> 0, kickers |-> <<14, 13, 9, 5, 2>>]}

\* hand.kickers[i] || 0
KickerAt(h, i) == IF i <= Len(h.kickers) THEN h.kickers[i] ELSE 0

RECURSIVE CompareKickers(_, _, _)
CompareKickers(hand1, hand2, i) ==
  IF i > Max(Len(hand1.kickers), Len(hand2.kickers)) THEN 0
  ELSE IF KickerAt(hand1, i) # KickerAt(hand2, i)
    THEN KickerAt(hand2, i) - KickerAt(hand1, i)
    ELSE CompareKickers(hand1, hand2, i + 1)

compareHands_RankOnly(hand1, hand2) == hand2.rank - hand1.rank

compareHands(hand1, hand2) ==
  IF hand1.rank # hand2.rank THEN hand2.rank - hand1.rank
  ELSE CompareKickers(hand1, hand2, 1)

\* handEvaluations.sort(compareHands): stable, ascending by the comparator
RECURSIVE InsertSorted(_, _, _)
InsertSorted(sorted, x, evals) ==
  IF sorted = <<>> THEN <<x>>
  ELSE IF compareHands(evals[x], evals[Head(sorted)]) < 0
    THEN <<x>> \o sorted
    ELSE <<Head(sorted)>> \o InsertSorted(Tail(sorted), x, evals)

RECURSIVE SortByHand(_, _)
SortByHand(seq, evals) ==
  IF seq = <<>> THEN <<>>
  ELSE InsertSorted(SortByHand(SubSeq(seq, 1, Len(seq) - 1), evals),
                    seq[Len(seq)], evals)

\* seats that are neither folded nor eliminated, in seat order
RECURSIVE ShowdownFrom(_, _)
ShowdownFrom(ps, i) ==
  IF i >= NumSeats THEN <<>>
  ELSE IF ~ps[i].folded /\ ~ps[i].eliminated
    THEN <<i>> \o ShowdownFrom(ps, i + 1)
    ELSE ShowdownFrom(ps, i + 1)

Showdown_FirstTakesAll(g, evals) ==
  LET activePlayers == ShowdownFrom(g.players, 0)
      winner == SortByHand(activePlayers, evals)[1]
  IN [g EXCEPT !.phase = "showdown", !.bettingComplete = TRUE,
               !.winner = winner,
               !.players[winner].chips = @ + g.pot]

\* case 'river' of advancePhase: the payout
Showdown(g, evals) ==
  LET activePlayers == ShowdownFrom(g.players, 0)
      pay(w, amt) == [i \in Seats |->
                        IF i \in w
                        THEN [g.players[i] EXCEPT !.chips = @ + amt]
                        ELSE g.players[i]]
  IN IF Len(activePlayers) = 1
     THEN [g EXCEPT !.phase = "showdown", !.bettingComplete = TRUE,
                    !.winner = activePlayers[1],
                    !.players = pay({activePlayers[1]}, g.pot)]
     ELSE
       LET handEvaluations == SortByHand(activePlayers, evals)
           winner == handEvaluations[1]
           tiedPlayers ==
             {handEvaluations[k] : k \in
                {j \in 1 .. Len(handEvaluations) :
                   compareHands(evals[handEvaluations[j]], evals[winner]) = 0}}
       IN IF Len(handEvaluations) >= 2
             /\ compareHands(evals[winner], evals[handEvaluations[2]]) = 0
          THEN [g EXCEPT !.phase = "showdown", !.bettingComplete = TRUE,
                         !.pot = 0, !.winner = NoSeat,
                         !.players =
                            pay(tiedPlayers,
                                g.pot \div Cardinality(tiedPlayers))]
          ELSE [g EXCEPT !.phase = "showdown", !.bettingComplete = TRUE,
                         !.winner = winner,
                         !.players = pay({winner}, g.pot)]

\* ---------------------------------------------------------- phase advance
AdvanceRejected_Never(g) == FALSE

\* the guard of lines 817-820
AdvanceRejected(g) == ~g.bettingComplete /\ g.phase # "showdown"

CollectBets_ClearsEliminated(g) ==
  [g EXCEPT !.pot = @ + TotalBets(g.players),
            !.players = [i \in Seats |->
                           [g.players[i] EXCEPT !.bet = 0,
                                                !.hasActed = FALSE,
                                                !.eliminated = FALSE]],
            !.currentBet = 0,
            !.bettingComplete = FALSE]

\* lines 822-831: move the live bets into the pot and reset the round
CollectBets(g) ==
  [g EXCEPT !.pot = @ + TotalBets(g.players),
            !.players = [i \in Seats |->
                           [g.players[i] EXCEPT !.bet = 0,
                                                !.hasActed = FALSE]],
            !.currentBet = 0,
            !.bettingComplete = FALSE]

\* the `while (folded || eliminated)` loop of lines 909-911; NoSeat when the
\* loop never ends (getNextActivePlayer keeps returning the same folded seat)
RECURSIVE SkipFolded(_)
SkipFolded(g) ==
  LET p == g.players[g.activePlayerIndex]
  IN IF ~(p.folded \/ p.eliminated) THEN g.activePlayerIndex
     ELSE LET n == getNextActivePlayer(g)
          IN IF n = g.activePlayerIndex THEN NoSeat
             ELSE SkipFolded([g EXCEPT !.activePlayerIndex = n])

FirstToAct(g) ==
  SkipFolded([g EXCEPT !.activePlayerIndex =
                OrFirst(g.players, RingAt(g.players, g.dealerIndex, 1))])

DealPhase_SkipsTurn(g, evals) ==
  CASE g.phase = "preflop" ->
         [g EXCEPT !.communityCards = 3, !.deckIndex = @ + 3, !.phase = "flop"]
    [] g.phase = "flop" ->
         [g EXCEPT !.communityCards = @ + 2, !.deckIndex = @ + 2,
                   !.phase = "river"]
    [] g.phase = "turn" ->
         [g EXCEPT !.communityCards = @ + 1, !.deckIndex = @ + 1,
                   !.phase = "river"]
    [] g.phase = "river" -> Showdown(g, evals)
    [] OTHER -> g

\* the switch of lines 833-902, after the bets were collected
DealPhase(g, evals) ==
  CASE g.phase = "preflop" ->
         [g EXCEPT !.communityCards = 3, !.deckIndex = @ + 3, !.phase = "flop"]
    [] g.phase = "flop" ->
         [g EXCEPT !.communityCards = @ + 1, !.deckIndex = @ + 1,
                   !.phase = "turn"]
    [] g.phase = "turn" ->
         [g EXCEPT !.communityCards = @ + 1, !.deckIndex = @ + 1,
                   !.phase = "river"]
    [] g.phase = "river" -> Showdown(g, evals)
    [] OTHER -> g

AdvanceHangs(g, evals) ==
  LET dealt == DealPhase(CollectBets(g), evals)
  IN ~AdvanceRejected(g) /\ dealt.phase # "showdown"
     /\ FirstToAct(dealt) = NoSeat

advancePhase(g, evals) ==
  IF AdvanceRejected(g) THEN g
  ELSE LET dealt == DealPhase(CollectBets(g), evals)
       IN IF dealt.phase # "showdown"
          THEN [dealt EXCEPT !.activePlayerIndex = FirstToAct(dealt)]
          ELSE dealt

\* ------------------------------------------------------ tournament control
checkForEliminations(g) ==
  [g EXCEPT !.players =
     [i \in Seats |->
        IF g.players[i].chips = 0 /\ ~g.players[i].eliminated
        THEN [g.players[i] EXCEPT !.eliminated = TRUE]
        ELSE g.players[i]]]

checkTournamentComplete_TwoLeft(g) ==
  Cardinality({i \in Seats : ~g.players[i].eliminated}) <= 2

checkTournamentComplete(g) ==
  Cardinality({i \in Seats : ~g.players[i].eliminated}) = 1

RECURSIVE ScanDealer(_, _, _)
ScanDealer(g, nextDealer, attempts) ==
  IF attempts >= NumSeats THEN g.dealerIndex
  ELSE IF ~g.players[nextDealer].eliminated THEN nextDealer
       ELSE ScanDealer(g, (nextDealer + 1) % NumSeats, attempts + 1)

getNextDealerIndex_NextSeat(g) == (g.dealerIndex + 1) % NumSeats

getNextDealerIndex(g) == ScanDealer(g, (g.dealerIndex + 1) % NumSeats, 0)

startNewHand(g) ==
  LET gameWithEliminations == checkForEliminations(g)
  IN IF checkTournamentComplete(gameWithEliminations)
     THEN [gameWithEliminations EXCEPT
             !.phase = "tournament_complete",
             !.tournamentWinner =
                CHOOSE i \in Seats : ~gameWithEliminations.players[i].eliminated,
             !.bettingComplete = TRUE]
     ELSE dealCards([gameWithEliminations EXCEPT
                       !.dealerIndex = getNextDealerIndex(gameWithEliminations),
                       !.deckIndex = 0, !.communityCards = 0, !.pot = 0,
                       !.currentBet = 0, !.winner = NoSeat,
                       !.handNumber = @ + 1])

\* ------------------------------------------------- deferred policy turns
\* dependency list of the auto-play effect
EffectDeps(g) ==
  <<g.activePlayerIndex, g.phase, g.bettingComplete, g.winner>>

\* a stale or finished table: the effect and the timer callback both return
TableSettled(g) ==
  \/ g.phase \in {"null", "showdown", "tournament_complete"}
  \/ g.bettingComplete
  \/ g.winner # NoSeat

\* the effect body: does it arm the pacing timer for this table?
EffectArmsTimer(g, human) ==
  LET activePlayer == g.players[g.activePlayerIndex]
  IN /\ ~TableSettled(g)
     /\ g.activePlayerIndex # human
     /\ ~activePlayer.folded /\ ~activePlayer.allIn
     /\ ~activePlayer.eliminated /\ ~activePlayer.hasActed

TimerGuard_AnySeat(g, human) ==
  LET currentActivePlayer == g.players[g.activePlayerIndex]
  IN /\ ~TableSettled(g)
     /\ ~(currentActivePlayer.hasActed \/ currentActivePlayer.folded
          \/ currentActivePlayer.allIn \/ currentActivePlayer.eliminated)

\* the guard the timer callback evaluates on the state at fire time
TimerGuard(g, human) ==
  LET currentActivePlayer == g.players[g.activePlayerIndex]
  IN /\ ~TableSettled(g)
     /\ ~(currentActivePlayer.hasActed \/ currentActivePlayer.folded
          \/ currentActivePlayer.allIn \/ currentActivePlayer.eliminated
          \/ g.activePlayerIndex = human)

\* after a render: the effect re-runs only when a dependency changed; its
\* cleanup clears the pending timer before the body runs again
Rerender(old, new, human, pending) ==
  IF EffectDeps(new) # EffectDeps(old) THEN EffectArmsTimer(new, human)
  ELSE pending

\* a pending timer outlives a render whose dependencies did not change
Survives(old, new, pending) == pending /\ EffectDeps(new) = EffectDeps(old)

\* the auto-advance branch of the effect (lines 782-790); it sits behind the
\* return of line 778, which already left on bettingComplete
EffectArmsAdvance(g) ==
  /\ ~TableSettled(g)
  /\ g.bettingComplete
  /\ g.phase \notin {"showdown", "tournament_complete"}
  /\ g.winner = NoSeat

\* the phase-advance callbacks pending after a render; each closes over the
\* table of the render that scheduled it and is never cleared
RerenderAdvance(old, new, pending) ==
  IF EffectDeps(new) # EffectDeps(old) /\ EffectArmsAdvance(new)
  THEN pending \cup {new}
  ELSE pending

\* ------------------------------------------------------------ the log
Log(msg, seat, amount) == [msg |-> msg, seat |-> seat, amount |-> amount]

\* ---------------------------------------------------------------- actions
Init ==
  /\ game = NullGame
  /\ userPosition = 0
  /\ aiTimer = FALSE
  /\ lastLog = Log("none", NoSeat, 0)
  /\ raises = 0
  /\ hung = FALSE
  /\ timerStale = FALSE
  /\ advTimers = {}

\* startNewGame: a fresh table, the user's seat chosen at random
StartNewGame ==
  /\ ~hung
  /\ \E pos \in Seats :
       LET new == dealCards(initializeGame)
       IN /\ game' = new
          /\ userPosition' = pos
          /\ aiTimer' = Rerender(game, new, pos, aiTimer)
          /\ timerStale' = Survives(game, new, aiTimer)
          /\ advTimers' = RerenderAdvance(game, new, advTimers)
  /\ lastLog' = Log("Tournament started", NoSeat, 0)
  /\ raises' = 0
  /\ hung' = FALSE

ActionPanelShown_IgnoresClosure ==
  /\ game.phase \notin {"null", "showdown", "tournament_complete"}
  /\ game.activePlayerIndex = userPosition
  /\ ~game.players[userPosition].eliminated

\* the action panel is rendered (line 1364)
ActionPanelShown ==
  /\ game.phase \notin {"null", "showdown", "tournament_complete"}
  /\ ~game.bettingComplete
  /\ game.activePlayerIndex = userPosition
  /\ ~game.players[userPosition].eliminated

\* amounts the user types into the raise box: a small raise that makes the
\* pot odd, and a large one.  What the panel lets the user submit: Call/Check only while
\* currentBet >= bet, Raise only while the amount exceeds currentBet
PanelRequests(g) ==
  {[action |-> "fold", amount |-> 0], [action |-> "allin", amount |-> 0]}
  \cup (IF g.currentBet >= g.players[g.activePlayerIndex].bet
        THEN {[action |-> "call", amount |-> 0]} ELSE {})
  \cup {[action |-> "raise", amount |-> a] :
          a \in {x \in {g.currentBet + 5, 500} : x > g.currentBet}}

AppliedAmount(g, seat, req) ==
  CASE req.action = "call" -> CallAmount(g, seat)
    [] req.action = "raise" -> req.amount
    [] req.action = "allin" -> g.players[seat].chips + g.players[seat].bet
    [] OTHER -> 0

CountsAsRaise(g, req) == req.action = "raise" /\ RaiseAccepted(g, req.amount)

HumanAction ==
  /\ ~hung
  /\ ActionPanelShown
  /\ \E req \in PanelRequests(game) :
       LET new == handlePlayerAction(game, userPosition, req.action, req.amount)
       IN /\ CountsAsRaise(game, req) => raises < MaxRaises
          /\ game' = new
          /\ aiTimer' = Rerender(game, new, userPosition, aiTimer)
          /\ timerStale' = (timerStale /\ Survives(game, new, aiTimer))
          /\ advTimers' = RerenderAdvance(game, new, advTimers)
          /\ lastLog' = Log(req.action, userPosition,
                            AppliedAmount(game, userPosition, req))
          /\ raises' = IF CountsAsRaise(game, req) THEN raises + 1 ELSE raises
  /\ UNCHANGED <<userPosition, hung>>

\* a request for the user's seat while another seat is to act
HumanOutOfTurn ==
  /\ ~hung
  /\ game.phase # "null"
  /\ userPosition # game.activePlayerIndex
  /\ \E action \in {"fold", "call", "raise", "allin"} :
       /\ game' = handlePlayerAction(game, userPosition, action,
                                     game.currentBet + 10)
       /\ lastLog' = Log("not your turn", userPosition, 0)
  /\ aiTimer' = Rerender(game, game', userPosition, aiTimer)
  /\ UNCHANGED <<userPosition, raises, hung, timerStale, advTimers>>

\* the pacing timer fires: the updater re-validates, then applies the policy
AITurn ==
  /\ ~hung
  /\ aiTimer
  /\ TimerGuard(game, userPosition)
  /\ \E decision \in AIDecisions(game, game.activePlayerIndex) :
       LET new == executeAIAction(game, decision)
       IN /\ CountsAsRaise(game, decision) => raises < MaxRaises
          /\ game' = new
          /\ aiTimer' = Rerender(game, new, userPosition, FALSE)
          /\ advTimers' = RerenderAdvance(game, new, advTimers)
          /\ lastLog' =
               IF decision.action = "raise" /\ ~RaiseAccepted(game, decision.amount)
               THEN Log("raise ignored", game.activePlayerIndex, decision.amount)
               ELSE Log(decision.action, game.activePlayerIndex,
                        AppliedAmount(game, game.activePlayerIndex, decision))
          /\ raises' = IF CountsAsRaise(game, decision) THEN raises + 1
                       ELSE raises
  /\ timerStale' = FALSE
  /\ UNCHANGED <<userPosition, hung>>

\* the timer fires on a table that no longer justifies it: no-op
AITimerStale ==
  /\ ~hung
  /\ aiTimer
  /\ ~TimerGuard(game, userPosition)
  /\ aiTimer' = FALSE
  /\ timerStale' = FALSE
  /\ UNCHANGED <<game, userPosition, lastLog, raises, hung, advTimers>>

\* hands the contenders can show at the river; no hand is evaluated in
\* the earlier phases
NoHand == CHOOSE h \in HandEvals : TRUE

RiverEvals(g) ==
  {evals \in [Seats -> HandEvals] :
     \A i \in Seats :
       (g.phase # "river" \/ g.players[i].folded \/ g.players[i].eliminated)
         => evals[i] = NoHand}

\* the Continue button (rendered in the betting phases)
AdvancePhase ==
  /\ ~hung
  /\ game.phase \in BettingPhases
  /\ ~AdvanceRejected(game)
  /\ \E evals \in RiverEvals(game) :
       IF AdvanceHangs(game, evals)
       THEN /\ hung' = TRUE
            /\ UNCHANGED <<game, aiTimer, lastLog, timerStale, advTimers>>
       ELSE LET new == advancePhase(game, evals)
            IN /\ game' = new
               /\ aiTimer' = Rerender(game, new, userPosition, aiTimer)
               /\ timerStale' = (timerStale /\ Survives(game, new, aiTimer))
               /\ advTimers' = RerenderAdvance(game, new, advTimers)
               /\ lastLog' = Log("advance", new.winner, new.pot)
               /\ hung' = FALSE
  /\ UNCHANGED <<userPosition, raises>>

\* advancePhase() called while the round is still open
AdvancePhaseRejected ==
  /\ ~hung
  /\ game.phase \in BettingPhases
  /\ ~game.bettingComplete
  /\ game' = advancePhase(game, CHOOSE evals \in RiverEvals(game) : TRUE)
  /\ lastLog' = Log("Betting round must be completed first!", NoSeat, 0)
  /\ UNCHANGED <<userPosition, aiTimer, raises, hung, timerStale, advTimers>>

NextHandShown_AnyPhase(g) == g.phase \in BettingPhases \cup {"showdown"}

\* the Next Hand button is rendered in showdown only
NextHandShown(g) == g.phase = "showdown"

\* the Next Hand button
NextHand ==
  /\ ~hung
  /\ NextHandShown(game)
  /\ LET new == startNewHand(game)
     IN /\ new.phase # "tournament_complete" => game.handNumber < MaxHands
        /\ game' = new
        /\ aiTimer' = Rerender(game, new, userPosition, aiTimer)
        /\ timerStale' = Survives(game, new, aiTimer)
        /\ advTimers' = RerenderAdvance(game, new, advTimers)
        /\ lastLog' = Log("next hand", NoSeat, new.handNumber)
  /\ UNCHANGED <<userPosition, raises, hung>>

Next ==
  \/ StartNewGame
  \/ HumanAction
  \/ HumanOutOfTurn
  \/ AITurn
  \/ AITimerStale
  \/ AdvancePhase
  \/ AdvancePhaseRejected
  \/ NextHand

Spec == Init /\ [][Next]_vars

\* ------------------------------------------------ the hands after the first
\* The table at the end of a first hand that busts a seat: the user, first
\* to act, went all-in, the next seat called with its whole stack, every
\* other seat folded, the caller had nothing left to bet on the flop, turn
\* and river, and the user showed the better hand.  Spec reaches this state.
FirstDeal == dealCards(initializeGame)

LateUser == FirstDeal.activePlayerIndex

LateCaller == (LateUser + 1) % NumSeats

LateTable ==
  LET folders == Seats \ {LateUser, LateCaller}
      pot == NumSeats * InitialChips
               - SumOver([i \in Seats |-> FirstDeal.players[i].chips], folders)
  IN [FirstDeal EXCEPT
        !.phase = "showdown", !.pot = pot, !.currentBet = 0,
        !.bettingComplete = TRUE, !.winner = LateUser,
        !.activePlayerIndex = LateCaller,
        !.communityCards = 5, !.deckIndex = @ + 5,
        !.players =
           [i \in Seats |->
              IF i = LateUser
              THEN [@[i] EXCEPT !.chips = pot, !.bet = 0, !.allIn = TRUE,
                                !.hasActed = FALSE]
              ELSE IF i = LateCaller
              THEN [@[i] EXCEPT !.chips = 0, !.bet = 0, !.hasActed = FALSE]
              ELSE [@[i] EXCEPT !.folded = TRUE, !.bet = 0,
                                !.hasActed = FALSE]]]

\* The second hand, played down with the handlers: the user folds when it
\* is the user's turn, a policy seat folds while another seat is still in
\* the hand and checks when it is alone, and Continue is pressed whenever a
\* round has closed.  The busted seat of the first hand is eliminated.
PlayDecision(g) ==
  IF Cardinality({i \in Seats : ~g.players[i].folded
                                /\ ~g.players[i].eliminated}) > 1
  THEN [action |-> "fold", amount |-> 0]
  ELSE [action |-> "call", amount |-> 0]

PlayStep(g) ==
  IF g.bettingComplete THEN advancePhase(g, [i \in Seats |-> NoHand])
  ELSE IF g.activePlayerIndex = LateUser
       THEN handlePlayerAction(g, LateUser, "fold", 0)
       ELSE executeAIAction(g, PlayDecision(g))

\* the log entry of that step
PlayLog(g) ==
  IF g.bettingComplete
  THEN Log("advance", PlayStep(g).winner, PlayStep(g).pot)
  ELSE IF g.activePlayerIndex = LateUser THEN Log("fold", LateUser, 0)
       ELSE Log(PlayDecision(g).action, g.activePlayerIndex, 0)

\* the table one step before the showdown
RECURSIVE PlayDown(_)
PlayDown(g) ==
  IF PlayStep(g).phase = "showdown" THEN g ELSE PlayDown(PlayStep(g))

SecondLast == PlayDown(startNewHand(LateTable))

SecondShowdown == PlayStep(SecondLast)

\* the showdown of the second hand, before Next Hand is pressed
LateInit ==
  /\ game = SecondShowdown
  /\ userPosition = LateUser
  /\ aiTimer = FALSE
  /\ lastLog = PlayLog(SecondLast)
  /\ raises = 0
  /\ hung = FALSE
  /\ timerStale = FALSE
  /\ advTimers = {}

\* the Next Hand button, for the hands after the first
NextHandLate ==
  /\ ~hung
  /\ NextHandShown(game)
  /\ LET new == startNewHand(game)
     IN /\ new.phase # "tournament_complete" => game.handNumber < MaxLateHands
        /\ game' = new
        /\ aiTimer' = Rerender(game, new, userPosition, aiTimer)
        /\ timerStale' = Survives(game, new, aiTimer)
        /\ advTimers' = RerenderAdvance(game, new, advTimers)
        /\ lastLog' = Log("next hand", NoSeat, new.handNumber)
  /\ UNCHANGED <<userPosition, raises, hung>>

LateNext ==
  \/ HumanAction
  \/ HumanOutOfTurn
  \/ AITurn
  \/ AdvancePhase
  \/ AdvancePhaseRejected
  \/ NextHandLate

SpecLate == LateInit /\ [][LateNext]_vars

\* ------------------------------------------------- the start of a hand
\* startNewHand applied to the tables a showdown can leave: every seat has
\* been eliminated in an earlier hand, has just lost its last chip, or holds
\* a stack below, between or above the blinds.  The dealer of the finished
\* hand was not eliminated when that hand was dealt.
StartInit ==
  /\ game \in
       {t \in {[LateTable EXCEPT
                  !.players =
                     [i \in Seats |->
                        [chips |-> st[i], bet |-> 0, folded |-> gone[i],
                         allIn |-> (st[i] = 0 /\ ~gone[i]),
                         hasActed |-> FALSE, eliminated |-> gone[i]]],
                  !.dealerIndex = d, !.winner = w, !.activePlayerIndex = w,
                  !.handNumber = 2] :
                 st \in [Seats -> {0, 5, 15, InitialChips}],
                 gone \in [Seats -> BOOLEAN], d \in Seats, w \in Seats} :
          /\ \A i \in Seats : t.players[i].eliminated
                                => t.players[i].chips = 0
          /\ ~t.players[t.dealerIndex].eliminated
          /\ t.players[t.winner].chips > 0}
  /\ userPosition = 0
  /\ aiTimer = FALSE
  /\ lastLog = Log("advance", game.winner, game.pot)
  /\ raises = 0
  /\ hung = FALSE
  /\ timerStale = FALSE
  /\ advTimers = {}

StartNext ==
  \/ NextHandLate

SpecStart == StartInit /\ [][StartNext]_vars

\* --------------------------------------------------- short-stacked hands
\* A hand played from the deal by seats that held nothing (busted in the
\* hand just finished, which ended in a split pot), less than a small
\* blind, or a full stack when Next Hand was pressed.
ShortInit ==
  /\ game \in
       {startNewHand(
          [LateTable EXCEPT
             !.players =
                [i \in Seats |->
                   [chips |-> st[i], bet |-> 0, folded |-> FALSE,
                    allIn |-> st[i] = 0, hasActed |-> FALSE,
                    eliminated |-> FALSE]],
             !.dealerIndex = d, !.winner = NoSeat, !.pot = 0,
             !.activePlayerIndex = d, !.handNumber = 2]) :
          st \in {x \in [Seats -> {0, 5, InitialChips}] :
                    Cardinality({i \in Seats : x[i] > 0}) >= 2},
          d \in Seats}
  /\ userPosition = 0
  /\ aiTimer = EffectArmsTimer(game, 0)
  /\ lastLog = Log("next hand", NoSeat, game.handNumber)
  /\ raises = 0
  /\ hung = FALSE
  /\ timerStale = FALSE
  /\ advTimers = {}

ShortNext ==
  \/ HumanAction
  \/ AITurn
  \/ AdvancePhase

SpecShort == ShortInit /\ [][ShortNext]_vars

\* ------------------------------------------------------- the showdown
\* advancePhase applied to the tables a closed river round can leave.  The
\* cards are fixed when the hand is dealt, so the evaluator output of every
\* seat is part of the table here (field hands), also for seats that have
\* folded.  A seat is in the hand, has folded, or was eliminated earlier.
\* Pots of 40, 45 and 100, bets of 0 or the big blind.
RiverTables ==
  {[players |->
      [i \in Seats |->
         [chips |-> IF kinds[i] = "out" THEN 0 ELSE InitialChips \div 2,
          bet |-> IF kinds[i] = "in" THEN bet ELSE 0,
          folded |-> kinds[i] # "in", allIn |-> FALSE,
          hasActed |-> kinds[i] = "in", eliminated |-> kinds[i] = "out"]],
    communityCards |-> 5, pot |-> pot, currentBet |-> bet, phase |-> "river",
    activePlayerIndex |-> CHOOSE i \in Seats : kinds[i] = "in",
    dealerIndex |-> CHOOSE i \in Seats : kinds[i] # "out",
    bettingComplete |-> TRUE, handNumber |-> 1, winner |-> NoSeat,
    tournamentWinner |-> NoSeat, deckIndex |-> 2 * NumSeats + 5,
    hands |-> hands] :
     kinds \in {k \in [Seats -> {"in", "folded", "out"}] :
                  \E i \in Seats : k[i] = "in"},
     bet \in {0, BigBlind}, pot \in {40, 45, 100},
     hands \in [Seats -> HandEvals]}

RiverInit ==
  /\ game \in RiverTables
  /\ userPosition = 0
  /\ aiTimer = FALSE
  /\ lastLog = Log("call", game.activePlayerIndex, 0)
  /\ raises = 0
  /\ hung = FALSE
  /\ timerStale = FALSE
  /\ advTimers = {}

\* the Continue button on the river
ShowdownStep ==
  /\ ~hung
  /\ game.phase = "river"
  /\ ~AdvanceRejected(game)
  /\ LET new == advancePhase(game, game.hands)
     IN /\ game' = new
        /\ aiTimer' = Rerender(game, new, userPosition, aiTimer)
        /\ timerStale' = (timerStale /\ Survives(game, new, aiTimer))
        /\ advTimers' = RerenderAdvance(game, new, advTimers)
        /\ lastLog' = Log("advance", new.winner, new.pot)
  /\ UNCHANGED <<userPosition, raises, hung>>

RiverNext ==
  \/ ShowdownStep

SpecShowdown == RiverInit /\ [][RiverNext]_vars

\* ------------------------------------------------------- the evaluator
\* evaluateFiveCardHand and evaluateHand on cards [value, suit], values
\* 2 .. 14 (RANKS index + 2), suits 0 .. 3
Card(v, s) == [value |-> v, suit |-> s]

\* [...cards].sort((a, b) => b.value - a.value): stable, descending
RECURSIVE InsertByValue(_, _)
InsertByValue(sorted, c) ==
  IF sorted = <<>> THEN <<c>>
  ELSE IF c.value > Head(sorted).value THEN <<c>> \o sorted
       ELSE <<Head(sorted)>> \o InsertByValue(Tail(sorted), c)

RECURSIVE SortByValue(_)
SortByValue(cards) ==
  IF cards = <<>> THEN <<>>
  ELSE InsertByValue(SortByValue(SubSeq(cards, 1, Len(cards) - 1)),
                     cards[Len(cards)])

MaxOf(S) == CHOOSE x \in S : \A y \in S : x >= y
MinOf(S) == CHOOSE x \in S : \A y \in S : x <= y

\* rankCounts[value]
RankCount(values, v) == Cardinality({k \in DOMAIN values : values[k] = v})

ValueSet(values) == {values[k] : k \in DOMAIN values}

\* Object.values(rankCounts).sort((a, b) => b - a) at index 0 and 1
CountAt0(values) == MaxOf({RankCount(values, v) : v \in ValueSet(values)})

CountAt1(values) ==
  LET top == CHOOSE v \in ValueSet(values) :
               RankCount(values, v) = CountAt0(values)
      others == ValueSet(values) \ {top}
  IN IF others = {} THEN 0
     ELSE MaxOf({RankCount(values, v) : v \in others})

\* Object.keys(rankCounts).find(k => rankCounts[k] === n): integer keys are
\* visited in ascending order
KeyWithCount(values, n) ==
  MinOf({v \in ValueSet(values) : RankCount(values, v) = n})

\* the values held at least twice
PairValues(values) == {v \in ValueSet(values) : RankCount(values, v) >= 2}

RegularStraight(values) ==
  values[1] - values[5] = 4 /\ Cardinality(ValueSet(values)) = 5

Wheel(values) == {14, 2, 3, 4, 5} \subseteq ValueSet(values)

Eval(rank, kickers, highCard) ==
  [rank |-> rank, kickers |-> kickers, highCard |-> highCard]

TwoPairKickers_HighOnly(values) == <<MaxOf(PairValues(values))>>

\* kickers: [highPair, lowPair]
TwoPairKickers(values) ==
  <<MaxOf(PairValues(values)), MinOf(PairValues(values))>>

evaluateFiveCardHand(cards) ==
  LET sorted == SortByValue(cards)
      values == [k \in DOMAIN sorted |-> sorted[k].value]
      isFlush == Cardinality({sorted[k].suit : k \in DOMAIN sorted}) = 1
      isStraight == RegularStraight(values) \/ Wheel(values)
      straightHigh == IF RegularStraight(values) THEN values[1]
                      ELSE IF Wheel(values) THEN 5 ELSE 0
      highCard == values[1]
  IN IF isStraight /\ isFlush
     THEN IF straightHigh = 14 THEN Eval(9, <<>>, 14)
          ELSE Eval(8, <<straightHigh>>, straightHigh)
     ELSE IF CountAt0(values) = 4
     THEN Eval(7, <<KeyWithCount(values, 4)>>, KeyWithCount(values, 4))
     ELSE IF CountAt0(values) = 3 /\ CountAt1(values) = 2
     THEN Eval(6, <<KeyWithCount(values, 3), KeyWithCount(values, 2)>>,
               KeyWithCount(values, 3))
     ELSE IF isFlush THEN Eval(5, values, highCard)
     ELSE IF isStraight THEN Eval(4, <<straightHigh>>, straightHigh)
     ELSE IF CountAt0(values) = 3
     THEN Eval(3, <<KeyWithCount(values, 3)>>, KeyWithCount(values, 3))
     ELSE IF CountAt0(values) = 2 /\ CountAt1(values) = 2
     THEN Eval(2, TwoPairKickers(values), MaxOf(PairValues(values)))
     ELSE IF CountAt0(values) = 2
     THEN Eval(1, <<MaxOf(PairValues(values))>>, MaxOf(PairValues(values)))
     ELSE Eval(0, values, highCard)

\* the index tuples i < j < k < l < m of the five nested loops
RECURSIVE AscSeq(_)
AscSeq(S) ==
  IF S = {} THEN <<>>
  ELSE <<MinOf(S)>> \o AscSeq(S \ {MinOf(S)})

FiveOf(n) == {AscSeq(S) : S \in {T \in SUBSET (1 .. n) : Cardinality(T) = 5}}

\* the loops visit the tuples in lexicographic order
FirstTuple(tuples) ==
  CHOOSE t \in tuples :
    \A u \in tuples \ {t} :
      \E k \in 1 .. 5 : t[k] < u[k] /\ \A j \in 1 .. (k - 1) : t[j] = u[j]

Pick(cards, t) == [k \in 1 .. 5 |-> cards[t[k]]]

\* bestHand === null
NoBest == Eval(0 - 1, <<>>, 0)

RECURSIVE BestOver(_, _, _)
BestOver(cards, tuples, bestHand) ==
  IF tuples = {} THEN bestHand
  ELSE LET t == FirstTuple(tuples)
           evaluation == evaluateFiveCardHand(Pick(cards, t))
       IN BestOver(cards, tuples \ {t},
                   IF bestHand = NoBest \/ compareHands(evaluation, bestHand) < 0
                   THEN evaluation ELSE bestHand)

evaluateHand_FirstFive(cards) ==
  IF Len(cards) < 5 THEN Eval(0, <<>>, 0)
  ELSE evaluateFiveCardHand(SubSeq(cards, 1, 5))

evaluateHand(cards) ==
  IF Len(cards) < 5 THEN Eval(0, <<>>, 0)
  ELSE BestOver(cards, FiveOf(Len(cards)), NoBest)

\* Inputs.  A twelve-card part of the deck, from which every hand of five,
\* six and seven cards is taken, and a list of five-card hands.
EvalDeck ==
  <<Card(14, 0), Card(5, 0), Card(4, 0), Card(3, 0), Card(2, 0),
    Card(14, 1), Card(5, 1), Card(3, 1), Card(2, 1),
    Card(14, 2), Card(2, 2), Card(9, 2)>>

\* five cards of the given values: of one suit (suited) or of the suits
\* 0, 1, 2, 3, 0
Hand5(v, suited) ==
  [k \in 1 .. 5 |-> Card(v[k], IF suited THEN 0 ELSE (k - 1) % 4)]

RoyalHand == Hand5(<<14, 13, 12, 11, 10>>, TRUE)
QuadsHand == Hand5(<<9, 9, 9, 9, 2>>, FALSE)
WheelHand == Hand5(<<14, 2, 3, 4, 5>>, FALSE)
KingsQueens == Hand5(<<13, 13, 12, 12, 2>>, FALSE)
KingsJacks == Hand5(<<13, 13, 11, 11, 14>>, FALSE)

NamedHands ==
  {RoyalHand, QuadsHand, WheelHand, KingsQueens, KingsJacks,
   Hand5(<<13, 13, 12, 12, 3>>, FALSE),
   Hand5(<<13, 13, 10, 10, 4>>, FALSE),
   Hand5(<<14, 13, 9, 5, 3>>, FALSE),
   Hand5(<<9, 9, 14, 13, 12>>, FALSE),
   Hand5(<<9, 9, 4, 3, 2>>, FALSE),
   Hand5(<<7, 7, 7, 14, 13>>, FALSE),
   Hand5(<<7, 7, 7, 3, 2>>, FALSE),
   Hand5(<<9, 9, 9, 9, 14>>, FALSE),
   Hand5(<<7, 7, 7, 2, 2>>, FALSE),
   Hand5(<<14, 13, 9, 5, 2>>, FALSE),
   Hand5(<<14, 13, 9, 5, 2>>, TRUE),
   Hand5(<<9, 8, 7, 6, 5>>, TRUE),
   Hand5(<<9, 8, 7, 6, 5>>, FALSE)}

EvalInit ==
  /\ game \in {[phase |-> "dealt", cards |-> c] : c \in NamedHands}
          \cup {[phase |-> "dealt",
                  cards |-> [k \in 1 .. Len(idx) |-> EvalDeck[idx[k]]]] :
                  idx \in {AscSeq(S) :
                             S \in {T \in SUBSET (1 .. Len(EvalDeck)) :
                                      Cardinality(T) \in 5 .. 7}}}
          \cup {[phase |-> "matched", a |-> x, b |-> y, c |-> z] :
                  x \in NamedHands, y \in NamedHands, z \in NamedHands}
  /\ userPosition = 0
  /\ aiTimer = FALSE
  /\ lastLog = Log("none", NoSeat, 0)
  /\ raises = 0
  /\ hung = FALSE
  /\ timerStale = FALSE
  /\ advTimers = {}

\* evaluateHand on the cards a seat can use
EvaluateStep ==
  /\ game.phase = "dealt"
  /\ game' = [phase |-> "evaluated", cards |-> game.cards,
              hand |-> evaluateHand(game.cards)]
  /\ UNCHANGED <<userPosition, aiTimer, lastLog, raises, hung, timerStale,
                 advTimers>>

\* compareHands on the evaluations of three hands
CompareStep ==
  /\ game.phase = "matched"
  /\ LET handA == evaluateHand(game.a)
         handB == evaluateHand(game.b)
         handC == evaluateHand(game.c)
     IN game' = [phase |-> "compared", a |-> game.a, b |-> game.b,
                 c |-> game.c, handA |-> handA, handB |-> handB,
                 handC |-> handC,
                 aa |-> compareHands(handA, handA),
                 ab |-> compareHands(handA, handB),
                 ba |-> compareHands(handB, handA),
                 bc |-> compareHands(handB, handC),
                 ac |-> compareHands(handA, handC)]
  /\ UNCHANGED <<userPosition, aiTimer, lastLog, raises, hung, timerStale,
                 advTimers>>

EvalNext ==
  \/ EvaluateStep
  \/ CompareStep

SpecEval == EvalInit /\ [][EvalNext]_vars

\* ------------------------------------------------------------ the cards
\* The deck, the hole cards and the community cards of a hand.  The table
\* carries three more fields here: deck (the shuffled deck the cursor
\* deckIndex runs over), board (the communityCards array) and, per seat,
\* hand.

\* shuffleDeck: for i = length - 1 down to 1 the cards at i and j are
\* swapped, j = floor(Math.random() * (i + 1)); pick[i] is that j
RECURSIVE shuffleDeck(_, _, _)
shuffleDeck(deck, i, pick) ==
  IF i <= 0 THEN deck
  ELSE shuffleDeck([deck EXCEPT ![i + 1] = deck[pick[i] + 1],
                                ![pick[i] + 1] = deck[i + 1]],
                   i - 1, pick)

\* createDeck: suit by suit, rank by rank, then shuffled
createDeck(pick) ==
  shuffleDeck([k \in 1 .. 52 |-> Card(((k - 1) % 13) + 2, (k - 1) \div 13)],
              51, pick)

\* outcomes of the random draws of one shuffle: every card stays, every card
\* goes to the front, and two mixing sequences
ShufflePicks ==
  {[i \in 1 .. 51 |-> i], [i \in 1 .. 51 |-> 0],
   [i \in 1 .. 51 |-> i \div 2], [i \in 1 .. 51 |-> (7 * i + 3) % (i + 1)]}

\* the hands dealCards gives out (line 312): two cards at the cursor for
\* every seat that is not eliminated, in seat order; dealt is the table
\* dealCards returns, whose cursor stands behind the last hole card
dealtHands(dealt, deck) ==
  LET first == dealt.deckIndex - 2 * Len(ActiveSeq(dealt.players))
      before(i) == Cardinality({j \in Seats : j < i
                                  /\ ~dealt.players[j].eliminated})
      at(n) == deck[first + n + 1]
  IN [dealt EXCEPT
        !.deck = deck,
        !.players =
           [i \in Seats |->
              [dealt.players[i] EXCEPT
                 !.hand = IF dealt.players[i].eliminated THEN <<>>
                          ELSE <<at(2 * before(i)), at(2 * before(i) + 1)>>]]]

dealtBoard_CursorStays(old) ==
  IF old.phase = "preflop"
  THEN <<old.deck[old.deckIndex + 1], old.deck[old.deckIndex + 2],
         old.deck[old.deckIndex + 3]>>
  ELSE IF old.phase \in {"flop", "turn"}
       THEN Append(old.board, old.deck[old.deckIndex])
       ELSE old.board

\* the communityCards array advancePhase leaves (lines 834-853): three
\* cards at the cursor replace it on the flop, one is pushed on the turn
\* and on the river
dealtBoard(old) ==
  IF old.phase = "preflop"
  THEN <<old.deck[old.deckIndex + 1], old.deck[old.deckIndex + 2],
         old.deck[old.deckIndex + 3]>>
  ELSE IF old.phase \in {"flop", "turn"}
       THEN Append(old.board, old.deck[old.deckIndex + 1])
       ELSE old.board

\* The showdown tables the card hands start from: seat 1 holds less than a
\* big blind, any seats were eliminated earlier, and the cards of the
\* finished hand are still on the table.  The raises explored per
\* tournament were made in the earlier hands.
CardsInit ==
  /\ game \in
       {[dealtHands(
           [LateTable EXCEPT
              !.players =
                 [i \in Seats |->
                    [chips |-> IF gone[i] THEN 0
                               ELSE IF i = 1 THEN 15 ELSE InitialChips,
                     bet |-> 0, folded |-> gone[i], allIn |-> FALSE,
                     hasActed |-> FALSE, eliminated |-> gone[i],
                     hand |-> <<>>]],
              !.dealerIndex = d, !.winner = d, !.activePlayerIndex = d,
              !.handNumber = 2] @@ [deck |-> <<>>, board |-> <<>>],
           createDeck(pick))
         EXCEPT !.board = [k \in 1 .. 5 |-> createDeck(pick)[k]]] :
          gone \in {x \in [Seats -> BOOLEAN] :
                      Cardinality({i \in Seats : ~x[i]}) >= 2},
          d \in Seats, pick \in ShufflePicks}
  /\ ~game.players[game.dealerIndex].eliminated
  /\ userPosition = 0
  /\ aiTimer = FALSE
  /\ lastLog = Log("advance", game.winner, game.pot)
  /\ raises = MaxRaises
  /\ hung = FALSE
  /\ timerStale = FALSE
  /\ advTimers = {}

\* the Next Hand button: startNewHand with its fresh deck
CardsNextHand ==
  /\ ~hung
  /\ NextHandShown(game)
  /\ game.handNumber < MaxLateHands
  /\ \E new \in {[dealtHands(startNewHand(game), createDeck(pick))
                    EXCEPT !.board = <<>>] : pick \in ShufflePicks} :
          /\ game' = new
          /\ aiTimer' = Rerender(game, new, userPosition, aiTimer)
          /\ timerStale' = Survives(game, new, aiTimer)
          /\ advTimers' = RerenderAdvance(game, new, advTimers)
          /\ lastLog' = Log("next hand", NoSeat, new.handNumber)
  /\ UNCHANGED <<userPosition, raises, hung>>

\* the Continue button: the contenders' hands are evaluated on their own
\* cards and the board
CardsAdvance ==
  /\ ~hung
  /\ game.phase \in BettingPhases
  /\ ~AdvanceRejected(game)
  /\ \E evals \in {[i \in Seats |->
                      IF game.phase = "river" /\ ~game.players[i].folded
                         /\ ~game.players[i].eliminated
                      THEN evaluateHand(game.players[i].hand \o game.board)
                      ELSE NoHand]} :
       IF AdvanceHangs(game, evals)
       THEN /\ hung' = TRUE
            /\ UNCHANGED <<game, aiTimer, lastLog, timerStale, advTimers>>
       ELSE \E new \in {[advancePhase(game, evals)
                           EXCEPT !.board = dealtBoard(game)]} :
              /\ game' = new
              /\ aiTimer' = Rerender(game, new, userPosition, aiTimer)
              /\ timerStale' = (timerStale /\ Survives(game, new, aiTimer))
              /\ advTimers' = RerenderAdvance(game, new, advTimers)
              /\ lastLog' = Log("advance", new.winner, new.pot)
              /\ hung' = FALSE
  /\ UNCHANGED <<userPosition, raises>>

CardsNext ==
  \/ CardsNextHand
  \/ HumanAction
  \/ AITurn
  \/ CardsAdvance

SpecCards == CardsInit /\ [][CardsNext]_vars

\* ------------------------------------------------------ the seat scans
\* The while loops of getNextActivePlayer and getNextDealerIndex, one
\* iteration per step.  The table carries the loop variables nextIndex and
\* attempts, the number of seats examined so far (probes), and the returned
\* index once the function has returned (pc = "done").
scanStep_NeverCounts(g) ==
  LET p == g.players[g.nextIndex]
      qualifies == IF g.kind = "active" THEN Contender(p) ELSE ~p.eliminated
  IN IF qualifies
     THEN [g EXCEPT !.pc = "done", !.result = g.nextIndex, !.probes = @ + 1]
     ELSE [g EXCEPT !.nextIndex = (@ + 1) % NumSeats, !.probes = @ + 1]

scanStep(g) ==
  LET p == g.players[g.nextIndex]
      qualifies == IF g.kind = "active" THEN Contender(p) ELSE ~p.eliminated
      current == IF g.kind = "active" THEN g.activePlayerIndex
                 ELSE g.dealerIndex
  IN IF g.attempts >= NumSeats
     THEN [g EXCEPT !.pc = "done", !.result = current]
     ELSE IF qualifies
       THEN [g EXCEPT !.pc = "done", !.result = g.nextIndex,
                      !.probes = @ + 1]
       ELSE [g EXCEPT !.nextIndex = (@ + 1) % NumSeats,
                      !.attempts = @ + 1, !.probes = @ + 1]

\* every combination of the flags, every current index, both scans
ScanInit ==
  /\ game \in
       {[players |-> [i \in Seats |->
                        [NewPlayer EXCEPT !.folded = f[i], !.allIn = a[i],
                                          !.eliminated = e[i]]],
         activePlayerIndex |-> c, dealerIndex |-> c, kind |-> k,
         nextIndex |-> (c + 1) % NumSeats, attempts |-> 0, probes |-> 0,
         pc |-> "loop", result |-> NoSeat] :
          f \in [Seats -> BOOLEAN], a \in [Seats -> BOOLEAN],
          e \in [Seats -> BOOLEAN], c \in Seats, k \in {"active", "dealer"}}
  /\ userPosition = 0
  /\ aiTimer = FALSE
  /\ lastLog = Log("none", NoSeat, 0)
  /\ raises = 0
  /\ hung = FALSE
  /\ timerStale = FALSE
  /\ advTimers = {}

\* one evaluation of the loop condition and, if it holds, of the loop body
ScanProbe ==
  /\ game.pc = "loop"
  /\ game.probes <= NumSeats
  /\ game' = scanStep(game)
  /\ UNCHANGED <<userPosition, aiTimer, lastLog, raises, hung, timerStale,
                 advTimers>>

ScanNext ==
  \/ ScanProbe

SpecScan == ScanInit /\ [][ScanNext]_vars

\* ============================================ the earlier src/app/page.tsx
\* The earlier version of the component has no eliminations and no hand
\* counter: every table is one hand.  Its handlers handlePlayerAction,
\* executeAIAction, isBettingComplete and getNextActivePlayer have the text
\* of the tournament version without the `eliminated` tests; the seats keep
\* the flag at FALSE here, which makes those tests vacuous.  Its effect
\* schedules advancePhase through setTimeout without a cleanup, and the
\* callback closes over the `game` of the render that scheduled it.
\*
\* Objects that the handlers mutate in place are shared between the state,
\* `newGame = { ...game }` and the closures: pid names the players array a
\* table state holds, bid its communityCards array.  Two records with the
\* same pid (bid) always carry the same players (cards).
MaxPageGames == 1

pageNull ==
  [players |-> [i \in Seats |-> NewPlayer], communityCards |-> 0, pot |-> 0,
   currentBet |-> 0, phase |-> "null", activePlayerIndex |-> 0,
   dealerIndex |-> 0, bettingComplete |-> FALSE, winner |-> NoSeat,
   deckIndex |-> 0, pid |-> 0, bid |-> 0]

pageInitializeGame == [pageNull EXCEPT !.phase = "waiting"]

\* blinds at dealer + 1 and dealer + 2, first to act at dealer + 3
pageDealCards(g) ==
  LET smallBlindIndex == (g.dealerIndex + 1) % NumSeats
      bigBlindIndex == (g.dealerIndex + 2) % NumSeats
      dealt == [i \in Seats |->
                  [g.players[i] EXCEPT !.folded = FALSE, !.bet = 0,
                                       !.hasActed = FALSE]]
      small == [dealt EXCEPT ![smallBlindIndex] =
                  [@ EXCEPT !.chips = @ - SmallBlind, !.bet = SmallBlind]]
      big == [small EXCEPT ![bigBlindIndex] =
                [@ EXCEPT !.chips = @ - BigBlind, !.bet = BigBlind]]
      posted == [big EXCEPT ![smallBlindIndex].hasActed = FALSE,
                            ![bigBlindIndex].hasActed = TRUE]
  IN [g EXCEPT !.players = posted, !.pot = 0, !.phase = "preflop",
               !.activePlayerIndex = (g.dealerIndex + 3) % NumSeats,
               !.currentBet = BigBlind, !.communityCards = 0,
               !.bettingComplete = FALSE, !.deckIndex = @ + 2 * NumSeats]

pageHandlePlayerAction(g, playerIndex, action, amount) ==
  handlePlayerAction(g, playerIndex, action, amount)

\* strength tiers of the decision matrix: 85+, 70-84, 50-69, 30-49, below;
\* after the flop the strength is at least 50
PageStrengths(g) ==
  IF g.communityCards > 0 THEN {90, 75, 55} ELSE {90, 75, 55, 35, 10}

\* r1, r2: the outcomes of the Math.random() tests
pageMakeAIDecision(g, i, s, r1, r2) ==
  LET player == g.players[i]
      callAmount == g.currentBet - player.bet
      potAll == g.pot + callAmount + TotalBets(g.players)
      \* potOdds < num / den, potOdds being 0 without a bet to call
      potOddsBelow(num, den) ==
        callAmount > 0 => callAmount * den < num * potAll
      \* betSize < num / den
      betSizeBelow(num, den) == callAmount * den < num * Max(1, player.chips)
      raiseTo(by) ==
        [action |-> "raise",
         amount |-> Min(g.currentBet + by, player.chips + player.bet)]
      call == [action |-> "call", amount |-> 0]
  IN IF s >= 85
     THEN IF r1 THEN raiseTo(Max(BigBlind * 3, g.pot \div 2)) ELSE call
     ELSE IF s >= 70 /\ (betSizeBelow(1, 10) \/ r1)
     THEN IF r2 THEN raiseTo(BigBlind * 2) ELSE call
     ELSE IF s >= 50 /\ (potOddsBelow(3, 10) \/ betSizeBelow(1, 20))
     THEN call
     ELSE IF s >= 30 /\ (potOddsBelow(15, 100) \/ betSizeBelow(1, 50))
     THEN call
     ELSE IF callAmount = 0 THEN call
     ELSE [action |-> "fold", amount |-> 0]

\* pot * 0.5 is a whole number of chips only for an even pot; the premium
\* raise is explored only then
PageAIDecisions(g, i) ==
  {pageMakeAIDecision(g, i, s, r[1], r[2]) :
     s \in {x \in PageStrengths(g) : x >= 85 => g.pot % 2 = 0},
     r \in BOOLEAN \X BOOLEAN}

pageExecuteAIAction(g, decision) == executeAIAction(g, decision)

\* the `while (folded)` scan from dealer + 1; NoSeat when every seat folded
RECURSIVE PageScanFolded(_, _, _)
PageScanFolded(g, idx, steps) ==
  IF steps >= NumSeats THEN NoSeat
  ELSE IF ~g.players[idx].folded THEN idx
       ELSE PageScanFolded(g, (idx + 1) % NumSeats, steps + 1)

pageFirstToAct(g) == PageScanFolded(g, (g.dealerIndex + 1) % NumSeats, 0)

\* the `while (folded)` scan never ends when every seat has folded
pageAdvanceHangs(g, evals) ==
  LET dealt == DealPhase(CollectBets(g), evals)
  IN ~AdvanceRejected(g) /\ dealt.phase # "showdown"
     /\ pageFirstToAct(dealt) = NoSeat

\* advancePhase run on the `game` it closes over
pageAdvancePhase(g, evals) ==
  IF AdvanceRejected(g) THEN g
  ELSE LET dealt == DealPhase(CollectBets(g), evals)
       IN IF dealt.phase # "showdown"
          THEN [dealt EXCEPT !.activePlayerIndex = pageFirstToAct(dealt)]
          ELSE dealt

\* the effect: the auto-advance test comes first
pageEffectArmsAdvance(g) ==
  /\ g.phase # "null"
  /\ g.bettingComplete
  /\ g.phase # "showdown"
  /\ g.winner = NoSeat

pageTableSettled(g) ==
  \/ g.phase \in {"null", "showdown"}
  \/ g.bettingComplete
  \/ g.winner # NoSeat

pageEffectArmsTimer(g, human) ==
  LET activePlayer == g.players[g.activePlayerIndex]
  IN /\ ~pageTableSettled(g)
     /\ g.activePlayerIndex # human
     /\ ~activePlayer.folded /\ ~activePlayer.allIn /\ ~activePlayer.hasActed

pageTimerGuard(g, human) ==
  LET currentActivePlayer == g.players[g.activePlayerIndex]
  IN /\ ~pageTableSettled(g)
     /\ ~(currentActivePlayer.hasActed \/ currentActivePlayer.folded
          \/ currentActivePlayer.allIn \/ g.activePlayerIndex = human)

pageRerender(old, new, human, pending) ==
  IF EffectDeps(new) # EffectDeps(old) THEN pageEffectArmsTimer(new, human)
  ELSE pending

\* the closures see what the handlers did to the objects they share
PageSync(pending, new) ==
  IF pending = <<>> THEN <<>>
  ELSE [k \in 1 .. Len(pending) |->
          [pending[k] EXCEPT
             !.players = IF pending[k].pid = new.pid THEN new.players ELSE @,
             !.communityCards =
                IF pending[k].bid = new.bid THEN new.communityCards ELSE @]]

\* setTimeout(() => advancePhase(), 1000): the callback keeps the `game` of
\* this render; no cleanup is returned, so it is never cleared
PageSchedule(old, new, pending) ==
  IF EffectDeps(new) # EffectDeps(old) /\ pageEffectArmsAdvance(new)
  THEN Append(pending, new)
  ELSE pending

FreshId(used) ==
  CHOOSE n \in 0 .. Cardinality(used) :
    n \notin used /\ \A m \in 0 .. (n - 1) : m \in used

PageBids(pending) == {pending[k].bid : k \in DOMAIN pending}

\* A callback waits one second.  The person at the table presses at most
\* one button in that second: a button is pressed only while no callback
\* is pending or the table is still the one the callback closed over.
PageUnhurried == IF advTimers = <<>> THEN TRUE ELSE Head(advTimers) = game

\* the name picked on the identity screen fixes the seat
PageInit ==
  /\ game = pageNull
  /\ userPosition = 1 % NumSeats
  /\ aiTimer = FALSE
  /\ lastLog = Log("none", NoSeat, 0)
  /\ raises = 0
  /\ hung = FALSE
  /\ timerStale = FALSE
  /\ advTimers = <<>>

\* the New Game button: fresh seats, fresh deck, fresh board; the players
\* arrays are numbered in the order of their creation
PageStartNewGame ==
  /\ ~hung
  /\ game.pid < MaxPageGames
  /\ PageUnhurried
  /\ LET new == [pageDealCards(pageInitializeGame) EXCEPT
                   !.pid = game.pid + 1,
                   !.bid = FreshId(PageBids(advTimers))]
     IN /\ game' = new
        /\ aiTimer' = pageRerender(game, new, userPosition, aiTimer)
        /\ timerStale' = Survives(game, new, aiTimer)
        /\ advTimers' = PageSchedule(game, new, advTimers)
  /\ lastLog' = Log("New game started", NoSeat, 0)
  /\ UNCHANGED <<userPosition, raises, hung>>

PageActionPanelShown ==
  /\ game.phase \notin {"null", "showdown"}
  /\ ~game.bettingComplete
  /\ game.activePlayerIndex = userPosition

\* the raise box is preset to currentBet + 10
PagePanelRequests(g) ==
  {[action |-> "fold", amount |-> 0], [action |-> "allin", amount |-> 0]}
  \cup (IF g.currentBet >= g.players[g.activePlayerIndex].bet
        THEN {[action |-> "call", amount |-> 0]} ELSE {})
  \cup {[action |-> "raise", amount |-> a] :
          a \in {x \in {g.currentBet + 10, 500} : x > g.currentBet}}

PageHumanAction ==
  /\ ~hung
  /\ PageActionPanelShown
  /\ PageUnhurried
  /\ \E req \in PagePanelRequests(game) :
       LET new == pageHandlePlayerAction(game, userPosition, req.action,
                                         req.amount)
       IN /\ CountsAsRaise(game, req) => raises < MaxRaises
          /\ game' = new
          /\ aiTimer' = pageRerender(game, new, userPosition, aiTimer)
          /\ timerStale' = (timerStale /\ Survives(game, new, aiTimer))
          /\ advTimers' = PageSchedule(game, new, PageSync(advTimers, new))
          /\ lastLog' = Log(req.action, userPosition,
                            AppliedAmount(game, userPosition, req))
          /\ raises' = IF CountsAsRaise(game, req) THEN raises + 1 ELSE raises
  /\ UNCHANGED <<userPosition, hung>>

\* the 1500 ms policy timer; every pending 1000 ms advance callback was
\* scheduled before it was armed and has fired by now
PageAITurn ==
  /\ ~hung
  /\ aiTimer
  /\ advTimers = <<>>
  /\ pageTimerGuard(game, userPosition)
  /\ \E decision \in PageAIDecisions(game, game.activePlayerIndex) :
       LET new == pageExecuteAIAction(game, decision)
       IN /\ CountsAsRaise(game, decision) => raises < MaxRaises
          /\ game' = new
          /\ aiTimer' = pageRerender(game, new, userPosition, FALSE)
          /\ advTimers' = PageSchedule(game, new, advTimers)
          /\ lastLog' =
               IF decision.action = "raise" /\ ~RaiseAccepted(game, decision.amount)
               THEN Log("raise ignored", game.activePlayerIndex, decision.amount)
               ELSE Log(decision.action, game.activePlayerIndex,
                        AppliedAmount(game, game.activePlayerIndex, decision))
          /\ raises' = IF CountsAsRaise(game, decision) THEN raises + 1
                       ELSE raises
  /\ timerStale' = FALSE
  /\ UNCHANGED <<userPosition, hung>>

\* the Continue / Show Results button: advancePhase of the current render
PageContinue ==
  /\ ~hung
  /\ game.phase # "null"
  /\ game.bettingComplete \/ game.phase = "showdown"
  /\ PageUnhurried
  /\ \E evals \in RiverEvals(game) :
       IF pageAdvanceHangs(game, evals)
       THEN /\ hung' = TRUE
            /\ UNCHANGED <<game, aiTimer, lastLog, timerStale, advTimers>>
       ELSE LET adv == pageAdvancePhase(game, evals)
                new == [adv EXCEPT !.bid = IF game.phase = "preflop"
                                           THEN FreshId(PageBids(advTimers))
                                           ELSE @]
            IN /\ game' = new
               /\ aiTimer' = pageRerender(game, new, userPosition, aiTimer)
               /\ timerStale' = (timerStale /\ Survives(game, new, aiTimer))
               /\ advTimers' = PageSchedule(game, new, PageSync(advTimers, new))
               /\ lastLog' = Log("advance", new.winner, new.pot)
               /\ hung' = FALSE
  /\ UNCHANGED <<userPosition, raises>>

\* the oldest advance callback fires: advancePhase of the render that
\* scheduled it, whatever the table is by now
PageAutoAdvance ==
  /\ ~hung
  /\ advTimers # <<>>
  /\ LET closed == Head(advTimers)
         rest == Tail(advTimers)
     IN \E evals \in RiverEvals(closed) :
          IF pageAdvanceHangs(closed, evals)
          THEN /\ hung' = TRUE
               /\ UNCHANGED <<game, aiTimer, lastLog, timerStale, advTimers>>
          ELSE LET adv == pageAdvancePhase(closed, evals)
                   new == [adv EXCEPT !.bid = IF closed.phase = "preflop"
                                              THEN FreshId(PageBids(rest))
                                              ELSE @]
               IN /\ game' = new
                  /\ aiTimer' = pageRerender(game, new, userPosition, aiTimer)
                  /\ timerStale' = (timerStale /\ Survives(game, new, aiTimer))
                  /\ advTimers' = PageSchedule(game, new, PageSync(rest, new))
                  /\ lastLog' = Log("auto advance", new.winner, new.pot)
                  /\ hung' = FALSE
  /\ UNCHANGED <<userPosition, raises>>

PageNext ==
  \/ PageStartNewGame
  \/ PageHumanAction
  \/ PageAITurn
  \/ PageContinue
  \/ PageAutoAdvance

SpecPage == PageInit /\ [][PageNext]_vars

\* ================================================================ claims
TableTotal(g) == TotalChips(g.players) + g.pot + TotalBets(g.players)

ActionMsgs == {"fold", "call", "raise", "allin"}

\* a step in which a seat's fold, call, raise or all-in was applied
ActionApplied == lastLog'.msg \in ActionMsgs /\ game' # game

\* C1: in every state of a tournament the seats' chips, the pot and the live
\* bets add up to the initial total, showdown and tournament_complete
\* included.
C1_ChipConservation ==
  game.phase # "null" => TableTotal(game) = NumSeats * InitialChips

\* C2: every applied fold, call, raise or all-in and every advance to flop,
\* turn or river leaves chips + live bets + pot unchanged.
C2_BettingStepsConserve ==
  [][(\/ ActionApplied
      \/ (lastLog'.msg = "advance" /\ game' # game
          /\ game'.phase \in {"flop", "turn", "river"}))
     => TableTotal(game') = TableTotal(game)]_vars

\* C3: the payout that ends a hand leaves, in the seats' stacks, exactly the
\* chips + live bets + pot from just before it.
C3_PayoutRedistributes ==
  [][(game.phase \in BettingPhases /\ game'.phase = "showdown")
     => TotalChips(game'.players) = TableTotal(game)]_vars

\* C4: while a betting round is open the active seat is not folded, not
\* all-in and not eliminated.
C4_ActiveSeatCanAct ==
  (game.phase \in BettingPhases /\ ~game.bettingComplete)
    => Contender(game.players[game.activePlayerIndex])

\* the closure predicate as the claim states it
ClosurePredicate(g) ==
  LET contenders == {i \in Seats : ~g.players[i].folded /\ ~g.players[i].allIn
                                    /\ ~g.players[i].eliminated}
  IN \/ Cardinality(contenders) <= 1
     \/ \A i \in contenders :
          g.players[i].hasActed /\ g.players[i].bet = g.currentBet

\* C5: after every applied action the round-closed flag equals the closure
\* predicate evaluated on the resulting state.
C5_FlagIsClosurePredicate ==
  [][ActionApplied => (game'.bettingComplete = ClosurePredicate(game'))]_vars

\* C5 witness: a call closed a round that still has two or more contenders
C5_Witness ==
  /\ lastLog.msg = "call"
  /\ game.phase \in BettingPhases
  /\ game.bettingComplete
  /\ Cardinality({i \in Seats : Contender(game.players[i])}) >= 2

\* C6: a seat flagged all-in has no chips left.
C6_AllInHasNoChips ==
  game.phase # "null" =>
    \A i \in Seats : game.players[i].allIn => game.players[i].chips = 0

\* C7: a call sets hasActed, moves min(currentBet - bet, chips) from the
\* stack to the bet, and flags the seat all-in whenever that amount is the
\* whole stack held before the call.
C7_CallEffect ==
  [][(ActionApplied /\ lastLog'.msg = "call" /\ game'.phase = game.phase)
     => LET s == lastLog'.seat
            before == game.players[s]
            after == game'.players[s]
            amount == Min(game.currentBet - before.bet, before.chips)
        IN /\ after.hasActed
           /\ after.chips = before.chips - amount
           /\ after.bet = before.bet + amount
           /\ (amount = before.chips => after.allIn)]_vars

\* C8: an accepted raise(amount) sets the raiser's bet and currentBet to
\* min(amount, chips + bet), debits the difference, sets the raiser's
\* hasActed and clears hasActed of every other seat that can still act;
\* folded, all-in and eliminated seats keep their flags.
C8_RaiseReopens ==
  [][(ActionApplied /\ lastLog'.msg = "raise")
     => LET s == lastLog'.seat
            before == game.players[s]
            after == game'.players[s]
            total == Min(lastLog'.amount, before.chips + before.bet)
        IN /\ lastLog'.amount > game.currentBet
           /\ after.bet = total
           /\ game'.currentBet = total
           /\ after.chips = before.chips - (total - before.bet)
           /\ after.hasActed
           /\ \A i \in Seats \ {s} :
                LET o == game.players[i]
                    n == game'.players[i]
                IN /\ n.folded = o.folded /\ n.allIn = o.allIn
                   /\ n.eliminated = o.eliminated
                   /\ n.chips = o.chips /\ n.bet = o.bet
                   /\ IF ~o.folded /\ ~o.allIn /\ ~o.eliminated
                      THEN ~n.hasActed
                      ELSE n.hasActed = o.hasActed]_vars

\* C9: a raise whose amount does not exceed currentBet is rejected with no
\* mutation: the table, the active seat included, is unchanged.
C9_IgnoredRaiseChangesNothing ==
  [][(lastLog'.msg = "raise ignored" /\ lastLog' # lastLog)
     => game' = game]_vars

\* C10: a request for the user's seat while that seat is not the active seat
\* leaves the whole table unchanged.
C10_OutOfTurnRejected ==
  [][(lastLog'.msg = "not your turn" /\ userPosition # game.activePlayerIndex)
     => game' = game]_vars

\* C10 witness: the request was refused in the middle of an open round
C10_Witness ==
  /\ lastLog.msg = "not your turn"
  /\ game.phase \in BettingPhases
  /\ ~game.bettingComplete
  /\ game.activePlayerIndex # userPosition

\* C11: a phase advance requested while the betting round of preflop, flop,
\* turn or river is not closed leaves the table unchanged: no bet collected,
\* no card dealt, same phase, same active seat.
C11_PrematureAdvanceRejected ==
  [][(/\ lastLog'.msg = "Betting round must be completed first!"
      /\ game.phase \in BettingPhases /\ ~game.bettingComplete)
     => game' = game]_vars

\* C11 witness: the advance was refused while bets were on the table
C11_Witness ==
  /\ lastLog.msg = "Betting round must be completed first!"
  /\ game.phase \in BettingPhases
  /\ ~game.bettingComplete
  /\ TotalBets(game.players) > 0

\* a closed betting round, or the showdown that follows the last one
RoundClosed(g) ==
  \/ (g.phase \in BettingPhases /\ g.bettingComplete)
  \/ g.phase = "showdown"

\* C12: once a betting round is flagged closed, and likewise in showdown, no
\* fold, call, raise or all-in of any seat, requested by the user or applied
\* by a policy callback, changes the table; it changes only when the phase
\* advances or a new hand or tournament starts.
C12_ClosedRoundIgnoresActions ==
  [][(RoundClosed(game) /\ game' # game)
     => lastLog'.msg \in {"advance", "next hand", "Tournament started"}]_vars

\* C12 witness: the user's own call closed the round, so the user's seat is
\* still the active seat and could act if the table let it
C12_Witness ==
  /\ RoundClosed(game) /\ game.phase # "showdown"
  /\ lastLog.msg = "call" /\ lastLog.seat = userPosition
  /\ game.activePlayerIndex = userPosition
  /\ Contender(game.players[userPosition])

\* the seats still in the hand: neither folded nor eliminated
InHand(g) == {i \in Seats : ~g.players[i].folded /\ ~g.players[i].eliminated}

\* C13: whenever an action leaves exactly one seat that is neither folded
\* nor eliminated, whoever folded last, the same step moves the hand to
\* showdown and pays that seat the pot plus all live bets, with no further
\* community card dealt.
C13_LastSeatWinsAtOnce ==
  [][(ActionApplied /\ Cardinality(InHand(game)) > 1
      /\ Cardinality(InHand(game')) = 1)
     => LET w == CHOOSE i \in Seats : i \in InHand(game')
        IN /\ game'.phase = "showdown"
           /\ game'.players[w].chips =
                game.players[w].chips + game.pot + TotalBets(game.players)
           /\ game'.communityCards = game.communityCards]_vars

\* the fire-time condition as the claim states it
PolicyTurnDue(g, human) ==
  LET p == g.players[g.activePlayerIndex]
  IN /\ g.phase \in BettingPhases
     /\ ~g.bettingComplete
     /\ g.winner = NoSeat
     /\ g.activePlayerIndex # human
     /\ ~p.folded /\ ~p.allIn /\ ~p.eliminated /\ ~p.hasActed

\* C14: a deferred policy-turn callback changes the table only if, when it
\* fires, the phase is a betting phase, the round is open, there is no
\* winner and the active seat is a policy seat that is not folded, all-in or
\* eliminated and has not acted; otherwise it is a no-op.  So it never acts
\* for the user's seat, and the one callback it may leave armed is for a
\* seat that has not acted yet.
C14_PolicyCallbackGuarded ==
  [][((AITurn \/ AITimerStale) /\ game' # game)
     => /\ PolicyTurnDue(game, userPosition)
        /\ lastLog'.seat = game.activePlayerIndex
        /\ lastLog'.seat # userPosition
        /\ aiTimer' => ~game'.players[game'.activePlayerIndex].hasActed]_vars

\* C14 witness: a callback is pending while the user's seat is the one to
\* act (the table was replaced under the callback)
C14_Witness ==
  /\ aiTimer
  /\ game.phase \in BettingPhases /\ ~game.bettingComplete
  /\ game.activePlayerIndex = userPosition

\* C15: a deferred callback scheduled for one table never applies an action
\* to a table that replaced it: once a new hand or a new tournament has
\* replaced the table, a callback still pending from before is a no-op when
\* it fires.
C15_StaleCallbackIsNoOp ==
  [][(timerStale /\ (AITurn \/ AITimerStale)) => game' = game]_vars

\* C16: when a betting round has closed in preflop, flop, turn or river and
\* no winner exists, a phase-advance callback is pending, so that the phase
\* advances by itself once the delay has elapsed.
C16_ClosedRoundSchedulesAdvance ==
  (game.phase \in BettingPhases /\ game.bettingComplete
   /\ game.winner = NoSeat)
    => advTimers # {}

\* the seats still in the tournament
Remaining(g) == {i \in Seats : ~g.players[i].eliminated}

\* C17 (src/app/page.tsx): an automatic phase-advance callback that fires
\* after the table has moved on from the state it was scheduled in leaves
\* the state unchanged, so that each round closure advances the phase at
\* most once.
C17_StaleAdvanceIsNoOp ==
  [][(PageAutoAdvance /\ Head(advTimers) # game) => game' = game]_vars

\* C18: whenever the phase is tournament_complete exactly one seat is not
\* eliminated and it is the recorded tournament winner; and from that state
\* no action, phase advance, next-hand request or deferred callback changes
\* the table: only a new tournament does.
C18_TournamentCompleteIsFinal ==
  [][/\ game'.phase = "tournament_complete"
          => Remaining(game') = {game'.tournamentWinner}
     /\ (game.phase = "tournament_complete" /\ game' # game)
          => (lastLog'.msg = "Tournament started"
              /\ game' = dealCards(initializeGame))]_vars

\* C18 witness: a request made after the tournament ended was refused
C18_Witness ==
  /\ game.phase = "tournament_complete"
  /\ game.tournamentWinner \in Seats
  /\ lastLog.msg = "not your turn"

\* a step of the Next Hand button
HandBoundary == game.phase = "showdown" /\ lastLog'.msg = "next hand"

\* C19: a seat's eliminated flag is set only at the hand boundary, never by
\* a fold, call, raise, all-in, phase advance or payout, so a seat whose
\* stack reaches 0 during a hand stays a non-eliminated contender of that
\* hand; and at the hand boundary every seat holding exactly 0 chips is
\* marked eliminated.
C19_EliminationAtHandBoundary ==
  [][/\ (\E i \in Seats : ~game.players[i].eliminated
                           /\ game'.players[i].eliminated)
          => HandBoundary
     /\ HandBoundary
          => \A i \in Seats :
               game.players[i].chips = 0 => game'.players[i].eliminated]_vars

\* C19 witness: in a hand played with a seat already eliminated, another
\* seat has lost its whole stack and stands at showdown, not eliminated
C19_Witness ==
  /\ game.phase = "showdown"
  /\ \E i \in Seats : game.players[i].eliminated
  /\ \E i \in Seats : /\ game.players[i].chips = 0
                       /\ ~game.players[i].eliminated
                       /\ ~game.players[i].folded

\* C20: within one tournament a seat once eliminated stays eliminated, so
\* the number of seats still in the tournament never grows from one hand to
\* the next; only starting a new tournament clears the flag.
C20_EliminatedStaysEliminated ==
  [][lastLog'.msg # "Tournament started"
     => \A i \in Seats :
          game.players[i].eliminated => game'.players[i].eliminated]_vars

\* C20 witness: a further hand was dealt around a seat eliminated earlier
C20_Witness ==
  /\ lastLog.msg = "next hand"
  /\ game.phase = "preflop"
  /\ \E i \in Seats : game.players[i].eliminated /\ game.players[i].chips = 0
  /\ Cardinality(Remaining(game)) >= 2

SeatAfter(ps, i) ==
  LET k == CHOOSE n \in 1 .. NumSeats :
             /\ ~ps[(i + n) % NumSeats].eliminated
             /\ \A m \in 1 .. (n - 1) : ps[(i + m) % NumSeats].eliminated
  IN (i + k) % NumSeats

\* C22: at every hand start with at least two non-eliminated seats, in the
\* cyclic order of the non-eliminated seats, the seat after the dealer posts
\* min(smallBlind, stack) and has not acted, the second seat posts
\* min(bigBlind, stack), has acted and holds the current bet, the third seat
\* is the active seat, the pot is 0 and the phase is preflop; full stacks
\* give bets 10 and 20 and a current bet of 20.
C22_HandStartBlinds ==
  [][(NextHandLate /\ game'.phase # "tournament_complete") =>
       LET ps == game'.players
           before == checkForEliminations(game).players
           sb == SeatAfter(ps, game'.dealerIndex)
           bb == SeatAfter(ps, sb)
       IN /\ game'.phase = "preflop"
          /\ game'.pot = 0
          /\ ps[sb].bet = Min(SmallBlind, before[sb].chips)
          /\ ps[sb].chips = before[sb].chips - ps[sb].bet
          /\ ~ps[sb].hasActed
          /\ ps[bb].bet = Min(BigBlind, before[bb].chips)
          /\ ps[bb].chips = before[bb].chips - ps[bb].bet
          /\ ps[bb].hasActed
          /\ ps[bb].bet = game'.currentBet
          /\ game'.activePlayerIndex = SeatAfter(ps, bb)
          /\ (\A i \in Seats : before[i].chips = InitialChips)
               => ps[sb].bet = 10 /\ ps[bb].bet = 20 /\ game'.currentBet = 20
    ]_vars

\* a dealt hand with an eliminated seat right after the dealer and a big
\* blind that took a whole short stack
C22_Witness ==
  /\ game.phase = "preflop"
  /\ game.handNumber = 3
  /\ game.players[(game.dealerIndex + 1) % NumSeats].eliminated
  /\ \E i \in Seats : /\ game.players[i].allIn
                      /\ game.players[i].bet = game.currentBet
                      /\ game.currentBet < BigBlind

\* C30: when a new hand starts in a tournament that is not complete, the
\* dealer moves to the first non-eliminated seat in cyclic order after the
\* previous dealer, so the dealer of the hand is a non-eliminated seat.
C30_DealerRotation ==
  [][(NextHandLate /\ game'.phase # "tournament_complete") =>
       /\ game'.dealerIndex = SeatAfter(game'.players, game.dealerIndex)
       /\ ~game'.players[game'.dealerIndex].eliminated
    ]_vars

\* a hand dealt after the dealer button skipped an eliminated seat
C30_Witness ==
  /\ game.phase = "preflop"
  /\ game.handNumber = 3
  /\ \E prev \in Seats :
       /\ game.players[(prev + 1) % NumSeats].eliminated
       /\ game.dealerIndex = (prev + 2) % NumSeats
       /\ lastLog.msg = "next hand"

\* C29: an all-in by the active seat leaves it with no chips, a bet of its
\* previous chips plus previous bet, and the allIn and hasActed flags; when
\* the new bet exceeds the current bet it becomes the current bet and
\* hasActed is cleared for every other seat that is not folded, all-in or
\* eliminated; otherwise the current bet and the other seats' hasActed
\* flags are unchanged.
C29_AllInStakesEverything ==
  [][(HumanAction /\ lastLog'.msg = "allin") =>
       LET i == game.activePlayerIndex
           allInAmount == game.players[i].chips + game.players[i].bet
           others == Seats \ {i}
       IN /\ game'.players[i].chips = 0
          /\ game'.players[i].bet = allInAmount
          /\ game'.players[i].allIn
          /\ game'.players[i].hasActed
          /\ IF allInAmount > game.currentBet
             THEN /\ game'.currentBet = allInAmount
                  /\ \A j \in others :
                       (~game.players[j].folded /\ ~game.players[j].allIn
                          /\ ~game.players[j].eliminated)
                         => ~game'.players[j].hasActed
             ELSE /\ game'.currentBet = game.currentBet
                  /\ \A j \in others :
                       game'.players[j].hasActed = game.players[j].hasActed
    ]_vars

\* the user's all-in has reopened the round for a seat that had acted
C29_Witness ==
  /\ lastLog.msg = "allin"
  /\ lastLog.seat = userPosition
  /\ game.currentBet = lastLog.amount
  /\ game.players[userPosition].allIn
  /\ \E j \in Seats \ {userPosition} :
       /\ ~game.players[j].folded /\ ~game.players[j].allIn
       /\ ~game.players[j].hasActed /\ game.players[j].bet > 0

\* C23: a next-hand request takes effect only when the phase is showdown,
\* and there it either deals a new hand with the hand number increased by
\* one or moves to tournament_complete; in any other phase the table is
\* left as it is.
C23_NextHandOnlyAfterShowdown ==
  [][NextHandLate =>
       /\ game.phase = "showdown"
       /\ \/ /\ game'.phase = "preflop"
             /\ game'.handNumber = game.handNumber + 1
          \/ /\ game'.phase = "tournament_complete"
             /\ game'.handNumber = game.handNumber
    ]_vars

\* a third hand has just been dealt from the showdown of the second
C23_Witness ==
  /\ lastLog.msg = "next hand"
  /\ game.phase = "preflop"
  /\ game.handNumber = 3
  /\ \E i \in Seats : game.players[i].eliminated

\* hand a is at least as good as hand b: a higher category, or the same
\* category and kickers that are not smaller at the first difference
RECURSIVE KickersAtLeast(_, _, _)
KickersAtLeast(a, b, i) ==
  IF i > Max(Len(a.kickers), Len(b.kickers)) THEN TRUE
  ELSE IF KickerAt(a, i) # KickerAt(b, i) THEN KickerAt(a, i) > KickerAt(b, i)
       ELSE KickersAtLeast(a, b, i + 1)

HandAtLeast(a, b) ==
  a.rank > b.rank \/ (a.rank = b.rank /\ KickersAtLeast(a, b, 1))

Contenders(g) ==
  {i \in Seats : ~g.players[i].folded /\ ~g.players[i].eliminated}

BestContenders(g) ==
  {i \in Contenders(g) :
     \A j \in Contenders(g) : HandAtLeast(g.hands[i], g.hands[j])}

\* C24: at a river showdown with two or more contenders chips go only to
\* the seats holding the best hand among the contenders: a single best hand
\* receives the whole pot, tied best hands receive equal shares, and folded
\* seats, eliminated seats and weaker hands receive nothing.
C24_BestHandTakesPot ==
  [][(ShowdownStep /\ Cardinality(Contenders(game)) >= 2) =>
       LET pot == game.pot + TotalBets(game.players)
           best == BestContenders(game)
           won == [i \in Seats |->
                     game'.players[i].chips - game.players[i].chips]
       IN /\ game'.phase = "showdown"
          /\ \A i \in Seats \ best : won[i] = 0
          /\ Cardinality(best) = 1 => \A i \in best : won[i] = pot
          /\ \A i, j \in best : won[i] = won[j] /\ won[i] > 0
    ]_vars

\* a pot split between tied hands while a folded seat, which got nothing,
\* held a better hand
C24_Witness ==
  /\ game.phase = "showdown"
  /\ game.winner = NoSeat
  /\ Cardinality(Contenders(game)) >= 2
  /\ \A i \in Contenders(game) : game.players[i].chips > InitialChips \div 2
  /\ \E i \in Seats : /\ game.players[i].folded /\ ~game.players[i].eliminated
                      /\ game.players[i].chips = InitialChips \div 2
                      /\ \A j \in Contenders(game) :
                           ~HandAtLeast(game.hands[j], game.hands[i])

\* kicker i of an evaluation, 0 when it has none
KickerOrZero(h, i) == IF i \in DOMAIN h.kickers THEN h.kickers[i] ELSE 0

\* the positions at which the kickers of two evaluations differ
KickerDiffs(a, b) ==
  {i \in 1 .. Max(Len(a.kickers), Len(b.kickers)) :
     KickerOrZero(a, i) # KickerOrZero(b, i)}

\* C25: compareHands is a total preorder over evaluator outputs:
\* compare(h, h) = 0, compare(a, b) < 0 exactly when compare(b, a) > 0, and
\* compare(a, b) <= 0 with compare(b, c) <= 0 gives compare(a, c) <= 0; a
\* higher category always wins and equal categories are decided by the
\* first differing kicker, a missing kicker counting as 0.
C25_ComparatorIsPreorder ==
  game.phase = "compared" =>
    LET a == game.handA
        b == game.handB
    IN /\ game.aa = 0
       /\ (game.ab < 0) <=> (game.ba > 0)
       /\ (game.ab <= 0 /\ game.bc <= 0) => game.ac <= 0
       /\ a.rank > b.rank => game.ab < 0
       /\ a.rank < b.rank => game.ab > 0
       /\ a.rank = b.rank =>
            IF KickerDiffs(a, b) = {} THEN game.ab = 0
            ELSE LET d == MinOf(KickerDiffs(a, b))
                 IN IF KickerOrZero(a, d) > KickerOrZero(b, d)
                    THEN game.ab < 0 ELSE game.ab > 0

\* three hands of one category in strictly descending order, the first two
\* separated only at the second kicker
C25_Witness ==
  /\ game.phase = "compared"
  /\ game.handA.rank = game.handB.rank
  /\ game.handB.rank = game.handC.rank
  /\ MinOf(KickerDiffs(game.handA, game.handB) \cup {9}) = 2
  /\ game.ab < 0 /\ game.bc < 0 /\ game.ac < 0

\* the five-card hands among the cards of an input
FiveCardHands(cards) == {Pick(cards, t) : t \in FiveOf(Len(cards))}

\* C26: the evaluator classifies A-K-Q-J-T of one suit as Royal Flush
\* (category 9), 9-9-9-9-2 as Four of a Kind (category 7) with leading
\* kicker 9 and the mixed-suit wheel A-2-3-4-5 as Straight (category 4) with
\* high card 5; for six or seven cards the result is no weaker under
\* compareHands than the evaluation of any five of them.
C26_EvaluatorPicksBest ==
  game.phase = "evaluated" =>
    /\ game.cards = RoyalHand => game.hand.rank = 9
    /\ game.cards = QuadsHand =>
         game.hand.rank = 7 /\ game.hand.kickers[1] = 9
    /\ game.cards = WheelHand =>
         game.hand.rank = 4 /\ game.hand.highCard = 5
    /\ Len(game.cards) \in {6, 7} =>
         \A five \in FiveCardHands(game.cards) :
           compareHands(game.hand, evaluateFiveCardHand(five)) <= 0

\* seven cards whose best five are not the first five
C26_Witness ==
  /\ game.phase = "evaluated"
  /\ Len(game.cards) = 7
  /\ compareHands(game.hand,
                  evaluateFiveCardHand(SubSeq(game.cards, 1, 5))) < 0

\* C27 as stated: K-K-Q-Q-2 and K-K-J-J-A are both Two Pair (category 2)
\* and the comparator reports the second hand, K-K-J-J-A, as the winner.
C27_KingsJacksWin ==
  (game.phase = "compared" /\ game.a = KingsQueens /\ game.b = KingsJacks)
    => /\ game.handA.rank = 2
       /\ game.handB.rank = 2
       /\ game.ab > 0

\* C27 amended: K-K-Q-Q-2 and K-K-J-J-A are both Two Pair (category 2) and
\* the comparator reports the first hand, K-K-Q-Q-2, as the winner: the
\* kickers (K, Q) and (K, J) differ at the second pair.
C27_KingsQueensWin ==
  (game.phase = "compared" /\ game.a = KingsQueens /\ game.b = KingsJacks)
    => /\ game.handA.rank = 2
       /\ game.handB.rank = 2
       /\ game.ab < 0
       /\ game.ba > 0

\* the two hands have been evaluated and compared
C27_Witness ==
  /\ game.phase = "compared"
  /\ game.a = KingsQueens
  /\ game.b = KingsJacks

\* the card values of a hand, in descending order
ValuesDesc(cards) ==
  LET sorted == SortByValue(cards)
  IN [k \in DOMAIN sorted |-> sorted[k].value]

\* C28: the kicker sequence lists the defining group value(s) first and
\* then the remaining card values, so that two five-card hands of the same
\* category with equal defining groups are ordered by their remaining
\* cards: the comparator reports a tie only when all five card values
\* coincide.
C28_TieOnlyOnEqualValues ==
  (game.phase = "compared" /\ game.ab = 0)
    => ValuesDesc(game.a) = ValuesDesc(game.b)

\* the cards on the table: every hole card and every community card
TableCards(g) ==
  LET holes == [i \in Seats |-> g.players[i].hand]
      flat[k \in 0 .. NumSeats] ==
        IF k = 0 THEN <<>> ELSE flat[k - 1] \o holes[k - 1]
  IN flat[NumSeats] \o g.board

\* C31: at every hand start each non-eliminated seat holds two hole cards,
\* is not folded and is all-in only when its blind took its whole stack;
\* each eliminated seat holds no cards, is folded, has no bet and is not
\* the active seat; and in every state of a hand the hole cards and the
\* community cards are pairwise distinct.
C31_HandStartAndDistinctCards ==
  /\ (lastLog.msg = "next hand" /\ game.phase = "preflop") =>
       \A i \in Seats :
         LET p == game.players[i]
         IN IF p.eliminated
            THEN /\ p.hand = <<>> /\ p.folded /\ p.bet = 0
                 /\ game.activePlayerIndex # i
                 /\ RingAt(game.players, game.dealerIndex, 1) # i
                 /\ RingAt(game.players, game.dealerIndex, 2) # i
            ELSE /\ Len(p.hand) = 2 /\ ~p.folded
                 /\ p.allIn = (p.chips = 0 /\ p.bet > 0)
  /\ game.phase \in BettingPhases \cup {"showdown"} =>
       LET cards == TableCards(game)
       IN \A a, b \in 1 .. Len(cards) : a # b => cards[a] # cards[b]

\* the river of a hand with an eliminated seat and a seat whose blind took
\* its stack: five community cards and two hole cards per remaining seat
C31_Witness ==
  /\ game.phase = "river"
  /\ Len(game.board) = 5
  /\ game.handNumber = 3
  /\ \E i \in Seats : game.players[i].eliminated /\ game.players[i].hand = <<>>
  /\ game.players[1].allIn /\ Len(game.players[1].hand) = 2

\* the seats a scan accepts, as offsets 1 .. NumSeats from the current index
ScanOffsets(g) ==
  LET current == IF g.kind = "active" THEN g.activePlayerIndex
                 ELSE g.dealerIndex
  IN {k \in 1 .. NumSeats :
        LET p == g.players[(current + k) % NumSeats]
        IN IF g.kind = "active"
           THEN ~p.folded /\ ~p.allIn /\ ~p.eliminated
           ELSE ~p.eliminated}

\* C32: the active-seat scan and the dealer scan examine at most one full
\* cycle of seats and return, whatever the folded, all-in and eliminated
\* flags are; they return the first qualifying seat after the current
\* index in cyclic order, and the current index when no seat qualifies.
C32_ScansReturnWithinOneCycle ==
  LET current == IF game.kind = "active" THEN game.activePlayerIndex
                 ELSE game.dealerIndex
      offsets == ScanOffsets(game)
  IN /\ game.probes <= NumSeats
     /\ game.pc = "done" =>
          /\ game.result =
               IF offsets = {} THEN current
               ELSE (current + CHOOSE k \in offsets :
                                 \A m \in offsets : k <= m) % NumSeats
          /\ game.result = IF game.kind = "active"
                           THEN getNextActivePlayer(game)
                           ELSE getNextDealerIndex(game)
     /\ game.pc = "loop" => game.attempts < NumSeats \/ offsets = {}

\* the active-seat scan has returned the current index after a full cycle
\* in which every seat was folded, all-in or eliminated
C32_Witness ==
  /\ game.pc = "done" /\ game.kind = "active"
  /\ ScanOffsets(game) = {}
  /\ game.probes = NumSeats
  /\ game.result = game.activePlayerIndex

\* the position of a phase in the order of a hand
PhaseOrder(ph) ==
  CASE ph = "preflop" -> 1 [] ph = "flop" -> 2 [] ph = "turn" -> 3
    [] ph = "river" -> 4 [] ph = "showdown" -> 5 [] OTHER -> 0

\* C33: within a hand the phase only moves forward along preflop, flop,
\* turn, river, showdown; a step to flop, turn or river goes to the next
\* phase and starts from a closed round, any other change of phase is a
\* jump to showdown; and the table shows 0 community cards in preflop, 3
\* in flop, 4 in turn and 5 in river.
C33_PhaseMovesForward ==
  [][/\ (/\ game.phase \in BettingPhases
         /\ game'.phase # game.phase
         /\ lastLog'.msg \notin {"next hand", "Tournament started"})
        => /\ PhaseOrder(game'.phase) > PhaseOrder(game.phase)
           /\ game'.handNumber = game.handNumber
           /\ IF game'.phase \in {"flop", "turn", "river"}
              THEN /\ PhaseOrder(game'.phase) = PhaseOrder(game.phase) + 1
                   /\ game.bettingComplete
              ELSE game'.phase = "showdown"
     /\ game'.phase \in BettingPhases
        => game'.communityCards =
             CASE game'.phase = "preflop" -> 0 [] game'.phase = "flop" -> 3
               [] game'.phase = "turn" -> 4 [] game'.phase = "river" -> 5
    ]_vars

\* a hand that ended on the flop: the last fold jumped to showdown with
\* three community cards on the table
C33_Witness ==
  /\ game.phase = "showdown"
  /\ game.communityCards = 3
  /\ lastLog.msg = "fold"

\* C34: in every reachable state every seat's chip stack and every seat's
\* current-round bet are at least 0, also after a blind posted from a
\* short stack, a raise capped at the stack and a call.
C34_StacksAndBetsNotNegative ==
  \A i \in Seats : game.players[i].chips >= 0 /\ game.players[i].bet >= 0

\* the user's raise was capped at a stack below the big blind, after a
\* blind had been posted from a stack below the blind
C34_Witness ==
  /\ lastLog.msg = "raise" /\ lastLog.seat = userPosition
  /\ game.players[userPosition].bet < lastLog.amount
  /\ game.players[userPosition].chips = 0
  /\ \E i \in Seats \ {userPosition} :
       game.players[i].allIn /\ game.players[i].bet = 5

\* C35: every betting phase leads to showdown when the callbacks fire and
\* the person at the table acts and advances; in particular there is no
\* state with an open round whose active seat cannot act, because it is
\* all-in or because it is a policy seat already marked as having acted,
\* so that no turn is scheduled for it, while the advance is rejected.
C35_OpenRoundCanMove ==
  (game.phase \in BettingPhases /\ AdvanceRejected(game)) =>
    LET p == game.players[game.activePlayerIndex]
    IN ~(p.allIn \/ (game.activePlayerIndex # userPosition /\ p.hasActed))

\* C36: a phase advance that passes its guard returns: the loop that picks
\* the first seat to act ends, also when the seat after the dealer has
\* folded and every other seat still in the hand is all-in.
C36_AdvancePhaseReturns ==
  [][AdvancePhase => ~hung']_vars

\* C37: whenever the round is open in a betting phase and the active seat
\* is policy-controlled, that seat has hasActed = false.
C37_ActivePolicySeatHasNotActed ==
  (/\ game.phase \in BettingPhases /\ ~game.bettingComplete
   /\ game.activePlayerIndex # userPosition)
    => ~game.players[game.activePlayerIndex].hasActed

\* C38: every policy turn applies a fold, a call or a raise above the
\* current bet and leaves the policy seat with hasActed set.
C38_PolicyTurnAlwaysActs ==
  [][AITurn =>
       /\ lastLog'.msg \in {"fold", "call", "raise"}
       /\ game'.players[game.activePlayerIndex].hasActed]_vars

\* C39: within one betting round no call, raise or all-in lowers the
\* current bet, also when the raiser's chips + bet are below it.
C39_CurrentBetNeverDrops ==
  [][(/\ lastLog'.msg \in {"call", "raise", "allin"}
      /\ game.phase \in BettingPhases /\ game'.phase = game.phase)
     => game'.currentBet >= game.currentBet]_vars

\* C40: in every state of a betting phase no seat's live bet exceeds the
\* current bet, from the posting of the blinds on, so that a call never
\* moves a negative amount.
C40_NoBetAboveCurrentBet ==
  game.phase \in BettingPhases =>
    \A i \in Seats : game.players[i].bet <= game.currentBet

====
